---- MODULE Spec2Model ----
(***************************************************************************)
(* A model of the space-weather checker: the lock manager and state store  *)
(* (scripts/state.ts), the scheduler entrypoint (scripts/checker.ts), the  *)
(* evaluator (scripts/alerts.ts), the dispatcher (scripts/notify.ts) and   *)
(* the prediction store and verifier (lib/predictions.ts,                  *)
(* scripts/verify-predictions.ts).                                         *)
(*                                                                         *)
(* Times are whole minutes since the epoch of the run.  Each subsystem has *)
(* its own group of variables and its own specification; a specification   *)
(* leaves the other groups at their initial value.                         *)
(***************************************************************************)
EXTENDS Integers, Sequences, FiniteSets, TLC

VARIABLES
    \* ---- lock manager (state.ts acquireLock / releaseLock, checker.ts main)
    clock,        \* Date.now(), in minutes
    lockFile,     \* contents of checker.lock: NoFile, EmptyFile or a LockInfo
    lockWriter,   \* the process whose writeFileSync last wrote the file
    lockInode,    \* the file at LOCK_PATH, named by the process that created it
    fd,           \* fd[p]: the file p's writeFileSync opened
    pc,           \* pc[p]: where process p stands in main()
    lockInfo,     \* lockInfo[p]: the LockInfo p built at state.ts:131
    obs,          \* obs[p]: what p's acquireLock read at state.ts:110-117
    deleted,      \* history: <<p, w>> when p unlinked a lockfile written by w
    logs,         \* logs[f]: size of log file f and the process that last rewrote it
    \* ---- state store on disk (state.ts saveState, api/alerts/route.ts GET)
    dir,          \* dir[path]: the file a path names (0: no such file)
    inodes,       \* inodes[i]: the chunks of file i, each tagged with a version
    nextVer,      \* the version the next saveState serialises
    wpc,          \* wpc[p]: where process p stands in saveState
    wver,         \* wver[p]: the version p is writing
    wfd,          \* wfd[p]: the file p's writeFileSync opened
    rpc,          \* where the reader stands in GET
    rfd,          \* the file the reader's readFileSync opened
    rbuf,         \* the chunks the reader has read
    rbase,        \* the version the path named when the reader opened it
    committed,    \* history: the versions renamed over the target
    \* ---- the tick (checker.ts main, notify.ts, verify-predictions.ts)
    tnow,         \* Date.now() of the checker's host, in minutes
    K,            \* checker-state.json, as saveState wrote it
    tstate,       \* main()'s state object
    tpc,          \* where main() stands: idle, fetching, verify, verify_save
    tlock,        \* the checker's lockfile exists: from acquireLock to releaseLock
    res,          \* res[s]: the FetchResult of source s, or Pending
    timer,        \* timer[s]: resilientFetch's setTimeout: armed, cleared, fired
    delivered,    \* history: the calls of the delivery sinks
    lastTick,     \* history: what the last run of checker.ts:68-181 saw and did
    ticks,        \* the number of ticks started
    waits,        \* the number of intervals that have passed
    tfail,        \* history: the last run that ended in main()'s catch block
    tverified,    \* history: the number of the last run that called the verifier
    \* ---- prediction store (lib/predictions.ts, api/predictions, base rate)
    predStore,    \* predictions.json
    predState,    \* verifyPendingPredictions' predState (EmptyStore outside the call)
    ppc,          \* where POST stands: idle, saving
    postState,    \* POST's state (EmptyStore outside the call)
    postReply,    \* history: the last response of POST and what it loaded and saved
    nextId,       \* the next randomUUID()
    posts,        \* the number of POST requests received
    bpc,          \* where compute-base-rate stands: idle, saving
    baseState,    \* compute-base-rate's state (EmptyStore outside the run)
    baseRuns,     \* the number of runs of compute-base-rate
    scorecard,    \* the scorecard of the last response of GET
    writes        \* history: who called savePredictions, and whether it held the lock

lockVars == <<clock, lockFile, lockWriter, lockInode, fd, pc, lockInfo, obs, deleted, logs>>

fsVars == <<dir, inodes, nextVer, wpc, wver, wfd, rpc, rfd, rbuf, rbase, committed>>

tickVars == <<tnow, K, tstate, tpc, tlock, res, timer, delivered, lastTick, ticks, waits,
              tfail, tverified>>

predVars == <<predStore, predState, ppc, postState, postReply, nextId, posts, bpc, baseState,
              baseRuns, scorecard, writes>>

vars == <<lockVars, fsVars, tickVars, predVars>>

(***************************************************************************)
(* Bounds of the model                                                     *)
(***************************************************************************)
NumProcs == 2         \* checker processes started on the host
ClockStep == 5        \* minutes the clock advances in one step
MaxClock == 10        \* the clock stops advancing here
Chunks == 2           \* write()/read() calls a state file takes
MaxSaves == 2         \* saveState calls in a run

Procs == 1..NumProcs

(***************************************************************************)
(* State store on disk                                                     *)
(***************************************************************************)
StatePath == 0                    \* STATE_PATH (state.ts:12)
TmpPath(p) == p                   \* `.checker-state-${process.pid}.tmp`
Paths == {StatePath} \cup {TmpPath(p) : p \in Procs}

\* JSON.stringify(state) of version v, as the chunks written to disk
Serialized(v) == [i \in 1..Chunks |-> v]

\* state.ts:77  the path writeFileSync writes the new bytes to
WritePathBug(p) == StatePath

WritePath(p) == TmpPath(p)

FsIdle ==
    /\ dir = [x \in Paths |-> 0]
    /\ inodes = << >>
    /\ nextVer = 1
    /\ wpc = [p \in Procs |-> "idle"]
    /\ wver = [p \in Procs |-> 0]
    /\ wfd = [p \in Procs |-> 0]
    /\ rpc = "idle"
    /\ rfd = 0
    /\ rbuf = << >>
    /\ rbase = 0
    /\ committed = {}

\* state.ts:56-77  saveState caps and serialises the state, re-parses it, and
\* writeFileSync opens the temp path with O_CREAT | O_TRUNC
SaveOpen(p) ==
    /\ wpc[p] = "idle"
    /\ nextVer <= MaxSaves
    /\ nextVer' = nextVer + 1
    /\ wver' = [wver EXCEPT ![p] = nextVer]
    /\ IF dir[WritePath(p)] = 0
       THEN /\ inodes' = Append(inodes, << >>)
            /\ dir' = [dir EXCEPT ![WritePath(p)] = Len(inodes) + 1]
            /\ wfd' = [wfd EXCEPT ![p] = Len(inodes) + 1]
       ELSE /\ inodes' = [inodes EXCEPT ![dir[WritePath(p)]] = << >>]
            /\ wfd' = [wfd EXCEPT ![p] = dir[WritePath(p)]]
            /\ UNCHANGED dir
    /\ wpc' = [wpc EXCEPT ![p] = "writing"]
    /\ UNCHANGED <<rpc, rfd, rbuf, rbase, committed>>

\* state.ts:77  writeFileSync writes the bytes, one write() at a time
SaveWrite(p) ==
    /\ wpc[p] = "writing"
    /\ Len(inodes[wfd[p]]) < Chunks
    /\ inodes' = [inodes EXCEPT ![wfd[p]] = Append(@, wver[p])]
    /\ UNCHANGED <<dir, nextVer, wpc, wver, wfd, rpc, rfd, rbuf, rbase, committed>>

\* state.ts:77  writeFileSync returns
SaveWritten(p) ==
    /\ wpc[p] = "writing"
    /\ Len(inodes[wfd[p]]) >= Chunks
    /\ wpc' = [wpc EXCEPT ![p] = "rename"]
    /\ UNCHANGED <<dir, inodes, nextVer, wver, wfd, rpc, rfd, rbuf, rbase, committed>>

\* state.ts:78  renameSync(tmpPath, STATE_PATH): one atomic replace
SaveRename(p) ==
    /\ wpc[p] = "rename"
    /\ dir[WritePath(p)] # 0
    /\ dir' = IF WritePath(p) = StatePath THEN dir
              ELSE [dir EXCEPT ![StatePath] = dir[WritePath(p)], ![WritePath(p)] = 0]
    /\ committed' = committed \cup {wver[p]}
    /\ wpc' = [wpc EXCEPT ![p] = "idle"]
    /\ UNCHANGED <<inodes, nextVer, wver, wfd, rpc, rfd, rbuf, rbase>>

\* state.ts:79-83  the write or the rename throws (disk full, I/O error):
\* the temp file is unlinked and the error rethrown
SaveFail(p) ==
    /\ wpc[p] \in {"writing", "rename"}
    /\ dir' = [dir EXCEPT ![TmpPath(p)] = 0]
    /\ wpc' = [wpc EXCEPT ![p] = "idle"]
    /\ UNCHANGED <<inodes, nextVer, wver, wfd, rpc, rfd, rbuf, rbase, committed>>

\* the version of the complete file a path names (0: no file)
VersionAt(path) ==
    IF dir[path] = 0 \/ inodes[dir[path]] = << >> THEN 0 ELSE inodes[dir[path]][1]

\* route.ts:10-17  existsSync(STATE_PATH); no file: checkerActive false
ReadExists ==
    /\ rpc = "idle"
    /\ rpc' = IF dir[StatePath] = 0 THEN "absent" ELSE "open"
    /\ rbuf' = << >>
    /\ UNCHANGED <<dir, inodes, nextVer, wpc, wver, wfd, rfd, rbase, committed>>

\* route.ts:19  readFileSync opens the file the path names now
ReadOpen ==
    /\ rpc = "open"
    /\ dir[StatePath] # 0
    /\ rfd' = dir[StatePath]
    /\ rbase' = VersionAt(StatePath)
    /\ rpc' = "reading"
    /\ UNCHANGED <<dir, inodes, nextVer, wpc, wver, wfd, rbuf, committed>>

\* route.ts:19  readFileSync reads the open file, one read() at a time, to
\* the end of the file as it is then; JSON.parse follows
ReadChunk ==
    /\ rpc = "reading"
    /\ IF Len(rbuf) < Len(inodes[rfd])
       THEN /\ rbuf' = Append(rbuf, inodes[rfd][Len(rbuf) + 1])
            /\ UNCHANGED rpc
       ELSE /\ rpc' = "done"
            /\ UNCHANGED rbuf
    /\ UNCHANGED <<dir, inodes, nextVer, wpc, wver, wfd, rfd, rbase, committed>>

\* route.ts:22-33  the response is sent; the next request may come
ReadReply ==
    /\ rpc \in {"done", "absent"}
    /\ rpc' = "idle"
    /\ rbuf' = << >>
    /\ UNCHANGED <<dir, inodes, nextVer, wpc, wver, wfd, rfd, rbase, committed>>

FsNext ==
    \/ \E p \in Procs : SaveOpen(p) /\ UNCHANGED <<lockVars, tickVars, predVars>>
    \/ \E p \in Procs : SaveWrite(p) /\ UNCHANGED <<lockVars, tickVars, predVars>>
    \/ \E p \in Procs : SaveWritten(p) /\ UNCHANGED <<lockVars, tickVars, predVars>>
    \/ \E p \in Procs : SaveRename(p) /\ UNCHANGED <<lockVars, tickVars, predVars>>
    \/ \E p \in Procs : SaveFail(p) /\ UNCHANGED <<lockVars, tickVars, predVars>>
    \/ ReadExists /\ UNCHANGED <<lockVars, tickVars, predVars>>
    \/ ReadOpen /\ UNCHANGED <<lockVars, tickVars, predVars>>
    \/ ReadChunk /\ UNCHANGED <<lockVars, tickVars, predVars>>
    \/ ReadReply /\ UNCHANGED <<lockVars, tickVars, predVars>>

(***************************************************************************)
(* Lock manager                                                            *)
(***************************************************************************)
LockTimeoutMin == 10  \* CONFIG.lockTimeout = 10 * 60 * 1000 ms

\* existsSync(LOCK_PATH) = false
NoFile == [kind |-> "none", pid |-> 0, timestamp |-> 0]
\* the file exists and JSON.parse of it throws
EmptyFile == [kind |-> "empty", pid |-> 0, timestamp |-> 0]
\* JSON.stringify({pid, timestamp, hostname}), all processes on one host
LockInfo(p, t) == [kind |-> "lock", pid |-> p, timestamp |-> t]
NoObs == [seen |-> FALSE, file |-> NoFile, alive |-> FALSE, now |-> 0]

Running == {"acq_exists", "acq_read", "acq_write", "acq_bytes", "critical",
            "rel_exists", "rel_read", "rel_unlink"}

\* process.kill(pid, 0) succeeds: the process exists
isProcessAlive(pid) == pc[pid] \in Running

\* state.ts:108-128: TRUE when acquireLock returns false for the lockfile
\* contents f read at time now, with the holder's liveness as probed
LockHeldBug(f, holderAlive, now) ==
    /\ f.kind = "lock"
    /\ now - f.timestamp < LockTimeoutMin

LockHeld(f, holderAlive, now) ==
    /\ f.kind = "lock"
    /\ holderAlive
    /\ now - f.timestamp < LockTimeoutMin

\* CONFIG.maxLogSize (1024 * 1024 bytes), in units of 256 KiB
MaxLogSize == 4

\* state.ts:159  the two log files truncateLogs() looks at
LogFiles == {"checker-stdout.log", "checker-stderr.log"}

\* a log file: its size, and the process whose writeFileSync last rewrote it
LogFile(size, by) == [size |-> size, by |-> by]

\* state.ts:157-177  a file over the limit is rewritten as a header line and
\* the last half limit of its content; the others are left alone
truncateLogs(files, p) ==
    [f \in LogFiles |->
        IF files[f].size > MaxLogSize
        THEN LogFile(MaxLogSize \div 2, p)
        ELSE files[f]]

\* everything of the lock manager but the log files
LockIdle ==
    /\ clock = 0
    /\ lockFile = NoFile
    /\ lockWriter = 0
    /\ lockInode = 0
    /\ fd = [p \in Procs |-> 0]
    /\ pc = [p \in Procs |-> "idle"]
    /\ lockInfo = [p \in Procs |-> NoFile]
    /\ obs = [p \in Procs |-> NoObs]
    /\ deleted = {}

LockInit ==
    /\ LockIdle
    /\ logs = [f \in LogFiles |-> LogFile(1, 0)]

\* launchd starts the checker: main() runs up to acquireLock(), and
\* truncateLogs() is the call before it (checker.ts:46)
Start(p) ==
    /\ pc[p] = "idle"
    /\ pc' = [pc EXCEPT ![p] = "acq_exists"]
    /\ logs' = truncateLogs(logs, p)
    /\ UNCHANGED <<clock, lockFile, lockWriter, lockInode, fd, lockInfo, obs, deleted>>

\* state.ts:108  if (existsSync(LOCK_PATH))
AcqExists(p) ==
    /\ pc[p] = "acq_exists"
    /\ pc' = [pc EXCEPT ![p] = IF lockFile = NoFile THEN "acq_write" ELSE "acq_read"]
    /\ obs' = [obs EXCEPT ![p] =
                 IF lockFile = NoFile
                 THEN [seen |-> TRUE, file |-> NoFile, alive |-> FALSE, now |-> clock]
                 ELSE @]
    /\ UNCHANGED <<clock, lockFile, lockWriter, lockInode, fd, lockInfo, deleted, logs>>

\* state.ts:109-127  read, parse, probe the holder, compare the age.
\* A file removed since existsSync makes readFileSync throw: the catch
\* treats it like a corrupt file.
AcqRead(p) ==
    /\ pc[p] = "acq_read"
    /\ LET f == lockFile
           a == f.kind = "lock" /\ isProcessAlive(f.pid)
       IN  /\ obs' = [obs EXCEPT ![p] =
                        [seen |-> TRUE, file |-> f, alive |-> a, now |-> clock]]
           /\ pc' = [pc EXCEPT ![p] =
                       IF LockHeld(f, a, clock) THEN "refused" ELSE "acq_write"]
    /\ UNCHANGED <<clock, lockFile, lockWriter, lockInode, fd, lockInfo, deleted, logs>>

\* state.ts:131-136  lockInfo = {pid, timestamp: new Date(), hostname};
\* writeFileSync opens the path with O_CREAT | O_TRUNC ...
AcqTruncate(p) ==
    /\ pc[p] = "acq_write"
    /\ lockInfo' = [lockInfo EXCEPT ![p] = LockInfo(p, clock)]
    /\ lockFile' = EmptyFile
    /\ lockInode' = IF lockFile = NoFile THEN p ELSE lockInode
    /\ fd' = [fd EXCEPT ![p] = IF lockFile = NoFile THEN p ELSE lockInode]
    /\ lockWriter' = p
    /\ pc' = [pc EXCEPT ![p] = "acq_bytes"]
    /\ UNCHANGED <<clock, obs, deleted, logs>>

\* ... and then writes the bytes to the file it opened (which an unlink may
\* have removed from the directory meanwhile); acquireLock returns true
AcqWrite(p) ==
    /\ pc[p] = "acq_bytes"
    /\ IF lockFile # NoFile /\ lockInode = fd[p]
       THEN lockFile' = lockInfo[p] /\ lockWriter' = p
       ELSE UNCHANGED <<lockFile, lockWriter>>
    /\ pc' = [pc EXCEPT ![p] = "critical"]
    /\ UNCHANGED <<clock, lockInode, fd, lockInfo, obs, deleted, logs>>

\* checker.ts:55-196  loadState, the pipeline, saveState; then finally
Work(p) ==
    /\ pc[p] = "critical"
    /\ pc' = [pc EXCEPT ![p] = "rel_exists"]
    /\ UNCHANGED <<clock, lockFile, lockWriter, lockInode, fd, lockInfo, obs, deleted, logs>>

\* state.ts:142  if (existsSync(LOCK_PATH))
RelExists(p) ==
    /\ pc[p] = "rel_exists"
    /\ pc' = [pc EXCEPT ![p] = IF lockFile = NoFile THEN "exited" ELSE "rel_read"]
    /\ UNCHANGED <<clock, lockFile, lockWriter, lockInode, fd, lockInfo, obs, deleted, logs>>

\* state.ts:146  the test that guards unlinkSync
OwnsLock(f, p) == f.kind = "lock" /\ f.pid = p

\* state.ts:143-146  read, parse, compare the pid (a throw is swallowed)
RelRead(p) ==
    /\ pc[p] = "rel_read"
    /\ pc' = [pc EXCEPT ![p] = IF OwnsLock(lockFile, p) THEN "rel_unlink" ELSE "exited"]
    /\ UNCHANGED <<clock, lockFile, lockWriter, lockInode, fd, lockInfo, obs, deleted, logs>>

\* state.ts:147  unlinkSync(LOCK_PATH) removes whatever file is at the path
RelUnlink(p) ==
    /\ pc[p] = "rel_unlink"
    /\ lockFile' = NoFile
    /\ deleted' = IF lockFile = NoFile THEN deleted
                  ELSE deleted \cup {<<p, lockWriter>>}
    /\ pc' = [pc EXCEPT ![p] = "exited"]
    /\ UNCHANGED <<clock, lockWriter, lockInode, fd, lockInfo, obs, logs>>

\* the process is killed (SIGKILL, power loss): no finally block runs
Crash(p) ==
    /\ pc[p] \in Running
    /\ pc' = [pc EXCEPT ![p] = "crashed"]
    /\ UNCHANGED <<clock, lockFile, lockWriter, lockInode, fd, lockInfo, obs, deleted, logs>>

\* time passes
Advance ==
    /\ clock + ClockStep <= MaxClock
    /\ clock' = clock + ClockStep
    /\ UNCHANGED <<lockFile, lockWriter, lockInode, fd, pc, lockInfo, obs, deleted, logs>>

LockNext ==
    \/ \E p \in Procs : Start(p) /\ UNCHANGED <<fsVars, tickVars, predVars>>
    \/ \E p \in Procs : AcqExists(p) /\ UNCHANGED <<fsVars, tickVars, predVars>>
    \/ \E p \in Procs : AcqRead(p) /\ UNCHANGED <<fsVars, tickVars, predVars>>
    \/ \E p \in Procs : AcqTruncate(p) /\ UNCHANGED <<fsVars, tickVars, predVars>>
    \/ \E p \in Procs : AcqWrite(p) /\ UNCHANGED <<fsVars, tickVars, predVars>>
    \/ \E p \in Procs : Work(p) /\ UNCHANGED <<fsVars, tickVars, predVars>>
    \/ \E p \in Procs : RelExists(p) /\ UNCHANGED <<fsVars, tickVars, predVars>>
    \/ \E p \in Procs : RelRead(p) /\ UNCHANGED <<fsVars, tickVars, predVars>>
    \/ \E p \in Procs : RelUnlink(p) /\ UNCHANGED <<fsVars, tickVars, predVars>>
    \/ \E p \in Procs : Crash(p) /\ UNCHANGED <<fsVars, tickVars, predVars>>
    \/ Advance /\ UNCHANGED <<fsVars, tickVars, predVars>>

(***************************************************************************)
(* Claims about the lock manager                                           *)
(***************************************************************************)
InCritical == {p \in Procs : pc[p] = "critical"}

C6_ReleaseOnlyOwn == \A d \in deleted : d[1] = d[2]

\* what C7 says of the lockfile acquireLock read: parseable, its pid alive,
\* its age below lockTimeout
C7_Held(o) ==
    /\ o.file.kind = "lock"
    /\ o.alive
    /\ o.now - o.file.timestamp < LockTimeoutMin

\* C7: acquireLock returns false, having written nothing, exactly when the
\* lockfile it read is parseable with a live pid and an age below
\* lockTimeout; in every other case it goes on to write its own
\* {pid, timestamp} and returns true
C7_AcquireDecision ==
    \A p \in Procs :
        (obs[p].seen /\ pc[p] # "crashed") =>
            /\ (pc[p] = "refused") <=> C7_Held(obs[p])
            /\ pc[p] = "refused" => (fd[p] = 0 /\ lockInfo[p] = NoFile /\ lockWriter # p)
            /\ pc[p] \in {"critical", "rel_exists", "rel_read", "rel_unlink", "exited"} =>
                  /\ fd[p] # 0
                  /\ lockInfo[p].kind = "lock" /\ lockInfo[p].pid = p
                  /\ lockInfo[p].timestamp >= obs[p].now
            /\ (lockWriter = p /\ lockFile.kind = "lock") => lockFile = lockInfo[p]

\* C7 witness: a process was refused by the lock of a live holder younger
\* than lockTimeout
C7_Witness ==
    \E p \in Procs :
        /\ pc[p] = "refused"
        /\ obs[p].alive
        /\ obs[p].now - obs[p].file.timestamp < LockTimeoutMin

(***************************************************************************)
(* Claims about the state store on disk                                    *)
(***************************************************************************)
\* C5: a reader concurrent with saveState reads a complete file, holding
\* either the contents the path named when it opened the file or contents
\* saved since, never a partial or empty file; and the bytes of a save are
\* only ever written to a temp file, never to the file the target names
C5_AtomicSave ==
    /\ rpc = "done" =>
          /\ \E v \in committed : rbuf = Serialized(v)
          /\ rbuf[1] >= rbase
    /\ dir[StatePath] # 0 =>
          \E v \in committed : inodes[dir[StatePath]] = Serialized(v)

\* C5 witness: the reader finished reading the previous contents while a
\* save of the next version was half written
C5_Witness ==
    /\ rpc = "done"
    /\ \E p \in Procs :
          /\ wpc[p] = "writing"
          /\ wver[p] > rbuf[1]
          /\ Len(inodes[wfd[p]]) \in 1..(Chunks - 1)

(***************************************************************************)
(* Configuration (scripts/config.ts)                                       *)
(***************************************************************************)
KpJump == 2            \* thresholds.cmeRevision.kpJump
MFlareProb == 30       \* thresholds.activeRegion.mFlareProb
XFlareProb == 10       \* thresholds.activeRegion.xFlareProb
QuietStart == 23       \* quietHours.start
QuietEnd == 7          \* quietHours.end
QuietEnabled == TRUE   \* quietHours.enabled
RegionAlertsEnabled == TRUE   \* activeRegionAlerts.enabled
MaxAlertHistory == 100 \* maxAlertHistory

\* CONFIG.cooldowns[alertType], in minutes; 0 also stands for a type the
\* table does not list (undefined)
Cooldown(alertType) ==
    CASE alertType = "kp-threshold" -> 180
      [] alertType = "kp-elevated" -> 360
      [] alertType = "bz-threshold" -> 60
      [] alertType = "wind-speed" -> 60
      [] alertType = "wind-density" -> 120
      [] alertType = "flare-m" -> 60
      [] alertType = "flare-x" -> 0
      [] alertType = "cme-earth" -> 0
      [] alertType = "cme-revision" -> 60
      [] alertType = "hss-arrival" -> 240
      [] alertType = "active-region" -> 360
      [] alertType = "all-clear" -> 60
      [] alertType = "data-stale" -> 360
      [] OTHER -> 0

\* CONFIG.channels[urgency]
Channels(urgency) ==
    CASE urgency = "critical" -> <<"signal", "desktop">>
      [] urgency = "high" -> <<"signal", "desktop">>
      [] urgency = "moderate" -> <<"desktop">>
      [] urgency = "info" -> <<"desktop">>

(***************************************************************************)
(* Values                                                                  *)
(***************************************************************************)
Null == -1             \* null / undefined where a number >= 0 is expected
NoTime == -1           \* no entry in lastCooldowns
Epoch == 0             \* new Date(0)
\* the value of a property that was not set, or was set to undefined
Undefined == "undefined"

RECURSIVE Concat(_)
\* the sequences of ss, one after the other: what a loop pushes, ss[i] being
\* what its i-th pass pushes
Concat(ss) == IF ss = << >> THEN << >> ELSE Head(ss) \o Concat(Tail(ss))

Range(s) == {s[i] : i \in 1..Len(s)}

\* a ?? b
Coalesce(a, b) == IF a = Null THEN b ELSE a

\* an alert (types.ts SpaceWeatherAlert) without its texts
Alert(id, type, urgency, now, src) ==
    [id |-> id, type |-> type, urgency |-> urgency, timestamp |-> now,
     sourceEventId |-> src]

\* an alert with its title, a template literal kept as the tuple of its parts
Titled(alert, title) == alert @@ [title |-> title]


(***************************************************************************)
(* Evaluator (scripts/alerts.ts)                                           *)
(***************************************************************************)
\* alerts.ts:24  the known CME, had the state kept its id alone
KnownCMEOfBug(cme, prevState) ==
    LET known == SelectSeq(prevState.knownCMEs, LAMBDA k : k.id = cme.id)
    IN  [i \in 1..Len(known) |-> [known[i] EXCEPT !.predictedKp = Null]]

\* alerts.ts:25  prevState.knownCMEs.find((k) => k.id === cme.id)
KnownCMEOf(cme, prevState) ==
    SelectSeq(prevState.knownCMEs, LAMBDA k : k.id = cme.id)

\* alerts.ts:27  the test for a new CME
IsNewCMEBug(cme, prevState) == TRUE

IsNewCME(cme, prevState) == KnownCMEOf(cme, prevState) = << >>

\* alerts.ts:24-65  with every new CME given the urgency high
CmeAlertBug(cme, prevState, now) ==
    IF IsNewCME(cme, prevState)
    THEN << Alert(<<"cme-earth", cme.id>>, "cme-earth", "high", now, cme.id) >>
    ELSE << >>

\* alerts.ts:24-65  the body of the loop over snapshot.earthDirectedCMEs
CmeAlert(cme, prevState, now) ==
    IF IsNewCME(cme, prevState)
    THEN LET predictedKp == Coalesce(cme.predictedKp, 0)
         IN  << Alert(<<"cme-earth", cme.id>>, "cme-earth",
                      IF predictedKp >= 7 THEN "critical" ELSE "high",
                      now, cme.id) >>
    ELSE LET known == Head(KnownCMEOf(cme, prevState))
             oldKp == Coalesce(known.predictedKp, 0)
             newKp == Coalesce(cme.predictedKp, 0)
             kpJump == newKp - oldKp
         IN  IF kpJump >= KpJump /\ newKp >= 5
             THEN << Alert(<<"cme-revision", cme.id, now>>, "cme-revision",
                           IF newKp >= 7 THEN "critical" ELSE "high",
                           now, cme.id) >>
             ELSE << >>

\* alerts.ts:72  cls.charAt(0), a class such as "M1.2" being <<"M", 12>>
Letter(cls) == cls[1]

\* alerts.ts:68-93  the body of the loop over snapshot.recentFlares
FlareAlert(flare, prevState, now) ==
    IF flare.id \in Range(prevState.knownFlareIds) THEN << >>
    ELSE IF Letter(flare.classType) = "X"
         THEN << Alert(<<"flare", flare.id>>, "flare-x", "critical", now, flare.id) >>
    ELSE IF Letter(flare.classType) = "M"
         THEN << Alert(<<"flare", flare.id>>, "flare-m", "high", now, flare.id) >>
    ELSE << >>

\* alerts.ts:96-108  the body of the loop over snapshot.recentHSS
HssAlert(hss, prevState, now) ==
    IF hss.id \in Range(prevState.knownHSSIds) THEN << >>
    ELSE << Alert(<<"hss", hss.id>>, "hss-arrival", "moderate", now, hss.id) >>

\* alerts.ts:111-142  Kp threshold crossings
KpAlertsBug(kp, prevKp, now) ==
    IF kp >= 4 /\ prevKp < 4
    THEN << Titled(Alert(<<"kp-cross-4", now>>, "kp-elevated", "info", now, Null),
                   <<"Kp Elevated to", kp>>) >>
    ELSE IF kp >= 5 /\ prevKp < 5
    THEN << Alert(<<"kp-cross-5", now>>, "kp-threshold", "high", now, Null) >>
    ELSE IF kp >= 7 /\ prevKp < 7
    THEN << Alert(<<"kp-cross-7", now>>, "kp-threshold", "critical", now, Null) >>
    ELSE << >>

KpAlerts(kp, prevKp, now) ==
    IF kp >= 7 /\ prevKp < 7
    THEN << Alert(<<"kp-cross-7", now>>, "kp-threshold", "critical", now, Null) >>
    ELSE IF kp >= 5 /\ prevKp < 5
    THEN << Alert(<<"kp-cross-5", now>>, "kp-threshold", "high", now, Null) >>
    ELSE IF kp >= 4 /\ prevKp < 4
    THEN << Titled(Alert(<<"kp-cross-4", now>>, "kp-elevated", "info", now, Null),
                   <<"Kp Elevated to", kp>>) >>
    ELSE << >>

\* alerts.ts:145-166  Bz threshold crossings
BzAlertsBug(bz, prevBz, now) ==
    (IF bz <= -15 /\ prevBz > -15
     THEN << Alert(<<"bz-cross-15", now>>, "bz-threshold", "high", now, Null) >>
     ELSE << >>)
    \o (IF bz <= -10 /\ prevBz > -10
        THEN << Alert(<<"bz-cross-10", now>>, "bz-threshold", "moderate", now, Null) >>
        ELSE << >>)

BzAlerts(bz, prevBz, now) ==
    IF bz <= -15 /\ prevBz > -15
    THEN << Alert(<<"bz-cross-15", now>>, "bz-threshold", "high", now, Null) >>
    ELSE IF bz <= -10 /\ prevBz > -10
    THEN << Alert(<<"bz-cross-10", now>>, "bz-threshold", "moderate", now, Null) >>
    ELSE << >>

\* alerts.ts:169-190  solar wind speed crossings
WindAlerts(windSpeed, prevSpeed, now) ==
    IF windSpeed >= 700 /\ prevSpeed < 700
    THEN << Alert(<<"wind-speed-700", now>>, "wind-speed", "high", now, Null) >>
    ELSE IF windSpeed >= 600 /\ prevSpeed < 600
    THEN << Alert(<<"wind-speed-600", now>>, "wind-speed", "moderate", now, Null) >>
    ELSE << >>

\* alerts.ts:193-205  solar wind density spike
DensityAlerts(density, prevDensity, now) ==
    IF density >= 20 /\ prevDensity < 20
    THEN << Alert(<<"wind-density-20", now>>, "wind-density", "moderate", now, Null) >>
    ELSE << >>

\* alerts.ts:209-225  the body of the loop over activeRegions; the alert
\* carries the region number in its id and has no sourceEventId
RegionAlert(region, prevState, now) ==
    IF region.regionNumber \in Range(prevState.knownRegionNumbers) THEN << >>
    ELSE IF region.flareProb_M < MFlareProb /\ region.flareProb_X < XFlareProb
    THEN << >>
    ELSE << Titled(Alert(<<"region-new", region.regionNumber>>, "active-region", "info",
                         now, Null),
                   <<"New Active Region", region.regionNumber>>) >>

\* alerts.ts:231-267  all-clear notifications
AllClearAlertsBug(kp, bz, windSpeed, prevState, now) ==
    IF kp < 5
    THEN << Alert(<<"all-clear-kp5", now>>, "all-clear", "moderate", now, Null) >>
    ELSE << >>

AllClearAlerts(kp, bz, windSpeed, prevState, now) ==
    (IF prevState.kpWasAbove5 /\ kp < 5
     THEN << Alert(<<"all-clear-kp5", now>>, "all-clear", "moderate", now, Null) >>
     ELSE << >>)
    \o (IF prevState.bzWasBelow15 /\ bz > -10
        THEN << Alert(<<"all-clear-bz15", now>>, "all-clear", "moderate", now, Null) >>
        ELSE << >>)
    \o (IF prevState.windWasAbove700 /\ windSpeed < 600
        THEN << Alert(<<"all-clear-wind700", now>>, "all-clear", "moderate", now, Null) >>
        ELSE << >>)

\* alerts.ts:15-270
evaluateAlerts(snapshot, activeRegions, prevState, now) ==
    LET kp == snapshot.kp
        bz == IF snapshot.magneticField.present THEN snapshot.magneticField.bz ELSE 0
        windSpeed == IF snapshot.solarWind.present THEN snapshot.solarWind.speed ELSE 0
        density == IF snapshot.solarWind.present THEN snapshot.solarWind.density ELSE 0
        CmeStep(c) == CmeAlert(c, prevState, now)
        FlareStep(f) == FlareAlert(f, prevState, now)
        HssStep(h) == HssAlert(h, prevState, now)
        RegionStep(r) == RegionAlert(r, prevState, now)
        cmes == snapshot.earthDirectedCMEs
        flares == snapshot.recentFlares
        streams == snapshot.recentHSS
    IN  Concat([i \in 1..Len(cmes) |-> CmeStep(cmes[i])])
        \o Concat([i \in 1..Len(flares) |-> FlareStep(flares[i])])
        \o Concat([i \in 1..Len(streams) |-> HssStep(streams[i])])
        \o KpAlerts(kp, prevState.lastKp, now)
        \o BzAlerts(bz, prevState.lastBz, now)
        \o WindAlerts(windSpeed, prevState.lastWindSpeed, now)
        \o DensityAlerts(density, prevState.lastWindDensity, now)
        \o (IF RegionAlertsEnabled
            THEN Concat([i \in 1..Len(activeRegions) |-> RegionStep(activeRegions[i])])
            ELSE << >>)
        \o AllClearAlerts(kp, bz, windSpeed, prevState, now)

(***************************************************************************)
(* Checker state and the tick (scripts/state.ts, scripts/checker.ts,       *)
(* scripts/notify.ts)                                                      *)
(***************************************************************************)
Sources == <<"swpc", "donki", "swpc-regions", "swpc-realtime-wind", "swpc-realtime-mag">>

\* state.ts:17-39
DEFAULT_STATE ==
    [schemaVersion |-> 1, lastRunAt |-> Epoch,
     lastKp |-> 0, lastBz |-> 0, lastWindSpeed |-> 0, lastWindDensity |-> 0,
     kpWasAbove5 |-> FALSE, kpWasAbove7 |-> FALSE,
     bzWasBelow10 |-> FALSE, bzWasBelow15 |-> FALSE,
     windWasAbove600 |-> FALSE, windWasAbove700 |-> FALSE,
     densityWasAbove20 |-> FALSE,
     knownCMEs |-> << >>, knownFlareIds |-> << >>, knownHSSIds |-> << >>,
     knownRegionNumbers |-> << >>, knownAlertProductIds |-> << >>,
     lastCooldowns |-> [t \in {} |-> NoTime],
     dataHealth |-> << >>, alertsSent |-> << >>]

\* state.lastCooldowns[alertType], NoTime when the key is not there
LastSent(state, alertType) ==
    IF alertType \in DOMAIN state.lastCooldowns
    THEN state.lastCooldowns[alertType] ELSE NoTime

isCoolingDownBug(alertType, state, now) == LastSent(state, alertType) # NoTime

\* state.ts:181-190, with the elapsed time in minutes
isCoolingDown(alertType, state, now) ==
    /\ Cooldown(alertType) # 0
    /\ LastSent(state, alertType) # NoTime
    /\ now - LastSent(state, alertType) < Cooldown(alertType)

\* state.ts:192-194
recordCooldown(alertType, state, now) ==
    [state EXCEPT !.lastCooldowns =
        [t \in DOMAIN state.lastCooldowns \cup {alertType} |->
            IF t = alertType THEN now ELSE state.lastCooldowns[t]]]

recordCooldownsBug(alerts, state, now) == state

RECURSIVE recordCooldowns(_, _, _)
\* checker.ts:142-144
recordCooldowns(alerts, state, now) ==
    IF alerts = << >> THEN state
    ELSE recordCooldowns(Tail(alerts), recordCooldown(Head(alerts).type, state, now), now)

\* notify.ts:116-127
isQuietHours(hour) ==
    IF ~QuietEnabled THEN FALSE
    ELSE IF QuietStart > QuietEnd THEN hour >= QuietStart \/ hour < QuietEnd
    ELSE hour >= QuietStart /\ hour < QuietEnd

\* a call of a delivery sink (sendSignalMessage, sendDesktopNotification)
Delivery(alert, channel, now, hour) ==
    [alert |-> alert, channel |-> channel, time |-> now, hour |-> hour]

\* notify.ts:67-86
dispatchAlert(alert, now, hour) ==
    IF alert.urgency # "critical" /\ isQuietHours(hour) THEN << >>
    ELSE [i \in 1..Len(Channels(alert.urgency)) |->
             Delivery(alert, Channels(alert.urgency)[i], now, hour)]

\* notify.ts:101-108  the one alert that stands for several info alerts; its
\* body is the join of their titles, kept as the sequence of the titles
InfoBatch(infoAlerts, now) ==
    [id |-> <<"info-batch", now>>, type |-> "info-batch", urgency |-> "info",
     title |-> <<Len(infoAlerts), "Space Weather Updates">>,
     body |-> [i \in 1..Len(infoAlerts) |-> infoAlerts[i].title],
     timestamp |-> now]

dispatchAlertsBug(alerts, now, hour) ==
    Concat([i \in 1..Len(alerts) |-> dispatchAlert(alerts[i], now, hour)])

\* notify.ts:90-112
dispatchAlerts(alerts, now, hour) ==
    LET infoAlerts == SelectSeq(alerts, LAMBDA a : a.urgency = "info")
        otherAlerts == SelectSeq(alerts, LAMBDA a : a.urgency # "info")
        One(a) == dispatchAlert(a, now, hour)
    IN  Concat([i \in 1..Len(otherAlerts) |-> One(otherAlerts[i])])
        \o (IF Len(infoAlerts) = 1 THEN dispatchAlert(infoAlerts[1], now, hour)
            ELSE IF Len(infoAlerts) > 1
            THEN dispatchAlert(InfoBatch(infoAlerts, now), now, hour)
            ELSE << >>)

\* checker.ts:21-38 and 68-72: the outcome of one fetcher, as main() sees it
FetchResult(fetched) ==
    IF fetched.ok THEN [data |-> fetched.data, ok |-> TRUE, error |-> Undefined]
    ELSE [data |-> Null, ok |-> FALSE, error |-> fetched.message]

\* checker.ts:216  existing.find((d) => d.source === source)
PrevHealth(source, existing) == SelectSeq(existing, LAMBDA d : d.source = source)

\* checker.ts:210-223
updateHealthBug(source, ok, error, existing, now) ==
    [source |-> source, ok |-> ok,
     lastSuccess |-> IF ok THEN now ELSE Epoch,
     lastError |-> IF ok THEN Undefined ELSE error]

updateHealth(source, ok, error, existing, now) ==
    [source |-> source, ok |-> ok,
     lastSuccess |-> IF ok THEN now
                     ELSE IF PrevHealth(source, existing) # << >>
                          THEN Head(PrevHealth(source, existing)).lastSuccess
                          ELSE Epoch,
     lastError |-> IF ok THEN Undefined ELSE error]

\* x.slice(-n)
LastNBug(x, n) == x

LastN(x, n) == IF Len(x) <= n THEN x ELSE SubSeq(x, Len(x) - n + 1, Len(x))

\* the magneticField / solarWind of a source that did not deliver one
Absent == [present |-> FALSE, bz |-> 0, speed |-> 0, density |-> 0]

\* a ?? b for readings
Prefer(a, b) == IF a.present THEN a ELSE b

\* checker.ts:89-121  the best-effort snapshot
BuildSnapshot(swpc, donki, rtWind, rtMag, state, now) ==
    [timestamp |-> now,
     kp |-> IF swpc.ok THEN swpc.data.kp ELSE state.lastKp,
     solarWind |-> Prefer(IF rtWind.ok THEN rtWind.data ELSE Absent,
                          IF swpc.ok THEN swpc.data.solarWind ELSE Absent),
     magneticField |-> Prefer(IF rtMag.ok THEN rtMag.data ELSE Absent,
                              IF swpc.ok THEN swpc.data.magneticField ELSE Absent),
     earthDirectedCMEs |-> IF donki.ok THEN donki.data.earthDirectedCMEs ELSE << >>,
     recentFlares |-> IF donki.ok THEN donki.data.flares ELSE << >>,
     recentStorms |-> IF donki.ok THEN donki.data.storms ELSE << >>,
     recentHSS |-> IF donki.ok THEN donki.data.hss ELSE << >>,
     activeAlerts |-> IF swpc.ok THEN swpc.data.alerts ELSE << >>]

\* checker.ts:129-135
FilterCooldown(allAlerts, state, now) ==
    SelectSeq(allAlerts, LAMBDA alert : ~isCoolingDown(alert.type, state, now))

UpdateStateBug(state, snapshot, activeRegions, dataHealth, alertsToSend, now) ==
    [state EXCEPT !.lastRunAt = now,
                  !.lastKp = snapshot.kp,
                  !.kpWasAbove5 = state.kpWasAbove5 \/ snapshot.kp >= 5,
                  !.dataHealth = dataHealth,
                  !.alertsSent = state.alertsSent \o alertsToSend]

\* checker.ts:147-178  the state at the end of the tick, given the state
\* after recordCooldown
UpdateState(state, snapshot, activeRegions, dataHealth, alertsToSend, now) ==
    LET mag == snapshot.magneticField
        wind == snapshot.solarWind
    IN  [state EXCEPT
            !.lastRunAt = now,
            !.lastKp = snapshot.kp,
            !.lastBz = IF mag.present THEN mag.bz ELSE state.lastBz,
            !.lastWindSpeed = IF wind.present THEN wind.speed ELSE state.lastWindSpeed,
            !.lastWindDensity = IF wind.present THEN wind.density ELSE state.lastWindDensity,
            !.kpWasAbove5 = snapshot.kp >= 5,
            !.kpWasAbove7 = snapshot.kp >= 7,
            !.bzWasBelow10 = (IF mag.present THEN mag.bz ELSE 0) <= -10,
            !.bzWasBelow15 = (IF mag.present THEN mag.bz ELSE 0) <= -15,
            !.windWasAbove600 = (IF wind.present THEN wind.speed ELSE 0) >= 600,
            !.windWasAbove700 = (IF wind.present THEN wind.speed ELSE 0) >= 700,
            !.densityWasAbove20 = (IF wind.present THEN wind.density ELSE 0) >= 20,
            !.knownCMEs = [i \in 1..Len(snapshot.earthDirectedCMEs) |->
                             [id |-> snapshot.earthDirectedCMEs[i].id,
                              predictedKp |-> snapshot.earthDirectedCMEs[i].predictedKp,
                              predictedArrival |-> snapshot.earthDirectedCMEs[i].predictedArrival]],
            !.knownFlareIds = [i \in 1..Len(snapshot.recentFlares) |-> snapshot.recentFlares[i].id],
            !.knownHSSIds = [i \in 1..Len(snapshot.recentHSS) |-> snapshot.recentHSS[i].id],
            !.knownRegionNumbers = [i \in 1..Len(activeRegions) |-> activeRegions[i].regionNumber],
            !.knownAlertProductIds = [i \in 1..Len(snapshot.activeAlerts) |->
                                        snapshot.activeAlerts[i].productId],
            !.dataHealth = dataHealth,
            !.alertsSent = state.alertsSent \o alertsToSend]

\* state.ts:60-61  the state after the cap of saveState
Saved(state) == [state EXCEPT !.alertsSent = LastN(state.alertsSent, MaxAlertHistory)]

\* d.lastError, for an entry built by updateHealth or parsed from the document
LastErrorOf(d) == IF "lastError" \in DOMAIN d THEN d.lastError ELSE Undefined

\* JSON.stringify of a data-health entry: a property that is not there, or
\* whose value is undefined, is left out of the text
stringifyEntry(d) ==
    IF LastErrorOf(d) = Undefined
    THEN [source |-> d.source, ok |-> d.ok, lastSuccess |-> d.lastSuccess]
    ELSE d

\* state.ts:64  JSON.stringify(state, null, 2): the document written to
\* checker-state.json; strings, finite numbers, booleans, null and arrays
\* are written as they are
stringify(state) ==
    [state EXCEPT !.dataHealth = [i \in 1..Len(state.dataHealth) |->
                                    stringifyEntry(state.dataHealth[i])]]

\* checker-state.json does not exist
NoStateFile == [k \in {} |-> Null]

\* { ...defaults, ...parsed }
Merge(defaults, parsed) ==
    [k \in DOMAIN defaults \cup DOMAIN parsed |->
        IF k \in DOMAIN parsed THEN parsed[k] ELSE defaults[k]]

\* state.ts:43-54  with the defaults taking the place of what was read
loadStateBug(file) == Merge(file, DEFAULT_STATE)

\* state.ts:43-54  JSON.parse gives an object with the properties of the
\* document, and the defaults fill in the top-level properties it lacks
loadState(file) ==
    IF DOMAIN file = {} THEN DEFAULT_STATE ELSE Merge(DEFAULT_STATE, file)

(***************************************************************************)
(* Prediction store and verifier (lib/predictions.ts,                      *)
(* scripts/verify-predictions.ts, api/predictions, compute-base-rate.ts)   *)
(***************************************************************************)
VerificationWindowHours == 48
CooldownHours == 6
MaxPredictions == 500

\* lib/predictions.ts DEFAULT_STATE, with the config fields the model reads
EmptyStore == [predictions |-> << >>, baseRate |-> Null]

\* api/predictions POST: the new Prediction
Prediction(id, now) ==
    [id |-> id, timestamp |-> now, status |-> "pending", verifiedAt |-> NoTime,
     windowEnd |-> now + VerificationWindowHours * 60, matchedEvents |-> << >>]

\* lib/predictions.ts savePredictions: what reaches the store
CapPredictions(store) ==
    [store EXCEPT !.predictions = LastN(store.predictions, MaxPredictions)]

\* lib/predictions.ts isWithinCooldown
isWithinCooldownBug(store, now) == FALSE

isWithinCooldown(store, now) ==
    /\ store.predictions # << >>
    /\ now - store.predictions[Len(store.predictions)].timestamp < CooldownHours * 60

\* api/predictions POST: cooldownEnds of the 429 response
CooldownEnds(store) ==
    store.predictions[Len(store.predictions)].timestamp + CooldownHours * 60

\* a response of POST: its HTTP status (0 while the handler runs), the store
\* it loaded and when, cooldownEnds, the prediction it returns and the
\* predictions it saved
Reply(status, loaded, at, cooldownEnds, prediction, saved) ==
    [status |-> status, loaded |-> loaded, at |-> at, cooldownEnds |-> cooldownEnds,
     prediction |-> prediction, saved |-> saved]

NoReply == Reply(0, EmptyStore, NoTime, NoTime, << >>, << >>)

\* a call of savePredictions by a caller that does or does not hold the
\* checker's lockfile
Write(by, locked) == [by |-> by, locked |-> locked]

\* a number as the quotient of two integers
Ratio(num, den) == [num |-> num, den |-> den]

\* null where a Ratio is expected
NoRatio == Ratio(0, 0)

\* a base rate of r per cent
Percent == 100

RECURSIVE Power(_, _)
Power(b, e) == IF e = 0 THEN 1 ELSE b * Power(b, e - 1)

RECURSIVE Choose(_, _)
\* lib/predictions.ts logChoose: exp of it, the binomial coefficient
Choose(n, k) ==
    IF k = 0 \/ k = n THEN 1 ELSE (Choose(n, k - 1) * (n - k + 1)) \div k

\* lib/predictions.ts binomialPMF, over the denominator Percent^n
binomialPMF(k, n, p) == Choose(n, k) * Power(p, k) * Power(Percent - p, n - k)

RECURSIVE SumPMF(_, _, _)
\* the loop of binomialPValue: the sum of binomialPMF(i, n, p) for i in from..n
SumPMF(from, n, p) ==
    IF from > n THEN 0 ELSE binomialPMF(from, n, p) + SumPMF(from + 1, n, p)

\* lib/predictions.ts binomialPValue, p being a percentage
binomialPValue(k, n, p) ==
    IF p <= 0 THEN Ratio(IF k > 0 THEN 0 ELSE 1, 1)
    ELSE IF p >= Percent THEN Ratio(1, 1)
    ELSE Ratio(IF SumPMF(k, n, p) < Power(Percent, n) THEN SumPMF(k, n, p)
               ELSE Power(Percent, n),
               Power(Percent, n))

\* the number of predictions of a store with a status
CountStatus(store, status) ==
    Len(SelectSeq(store.predictions, LAMBDA p : p.status = status))

\* lib/predictions.ts computeScorecard, counting a verified prediction as a
\* miss whatever its status
computeScorecardBug(store, now) ==
    [totalPredictions |-> Len(store.predictions),
     pending |-> CountStatus(store, "pending"),
     hits |-> CountStatus(store, "hit"),
     misses |-> Len(store.predictions) - CountStatus(store, "pending"),
     hitRate |-> NoRatio, baseRate |-> store.baseRate, pValue |-> NoRatio,
     totalDaysTracked |-> 0]

\* lib/predictions.ts computeScorecard
computeScorecard(store, now) ==
    LET hits == CountStatus(store, "hit")
        misses == CountStatus(store, "miss")
        n == hits + misses
    IN  [totalPredictions |-> Len(store.predictions),
         pending |-> CountStatus(store, "pending"),
         hits |-> hits,
         misses |-> misses,
         hitRate |-> IF n > 0 THEN Ratio(hits, n) ELSE NoRatio,
         baseRate |-> store.baseRate,
         pValue |-> IF n > 0 /\ store.baseRate # Null
                    THEN binomialPValue(hits, n, store.baseRate) ELSE NoRatio,
         totalDaysTracked |->
             IF store.predictions # << >>
             THEN (now - store.predictions[1].timestamp) \div 1440 ELSE 0]

\* no response of GET yet
NoScorecard == [computeScorecard(EmptyStore, 0) EXCEPT !.totalPredictions = Null]

\* verify-predictions.ts: the MatchedEvent type of an alert type, "" for none
AlertEventType(type) ==
    CASE type \in {"flare-m", "flare-x"} -> "flare"
      [] type \in {"kp-threshold", "kp-elevated"} -> "kp"
      [] type = "cme-earth" -> "cme"
      [] type = "bz-threshold" -> "bz"
      [] type = "wind-speed" -> "wind"
      [] OTHER -> ""

MatchedEvent(type, timestamp) == [type |-> type, timestamp |-> timestamp]

RECURSIVE Dedupe(_, _)
\* the events of s whose (type, timestamp) key is not in seen, first one kept
Dedupe(s, seen) ==
    IF s = << >> THEN << >>
    ELSE IF Head(s) \in seen THEN Dedupe(Tail(s), seen)
    ELSE <<Head(s)>> \o Dedupe(Tail(s), seen \cup {Head(s)})

findMatchingEventsBug(prediction, state, snapshot) ==
    [i \in 1..Len(snapshot.recentFlares) |->
        MatchedEvent("flare", snapshot.recentFlares[i].beginTime)]

\* verify-predictions.ts findMatchingEvents
findMatchingEvents(prediction, state, snapshot) ==
    LET start == prediction.timestamp
        end == prediction.windowEnd
        Outside(t) == t < start \/ t > end
        OfAlert(alert) ==
            IF Outside(alert.timestamp) \/ AlertEventType(alert.type) = "" THEN << >>
            ELSE << MatchedEvent(AlertEventType(alert.type), alert.timestamp) >>
        OfFlare(flare) ==
            IF Outside(flare.beginTime) \/ Letter(flare.classType) \notin {"M", "X"}
            THEN << >>
            ELSE << MatchedEvent("flare", flare.beginTime) >>
        OfStorm(storm) ==
            IF Outside(storm.startTime) \/ storm.kpIndex < 5 THEN << >>
            ELSE << MatchedEvent("kp", storm.startTime) >>
        OfCme(cme) ==
            IF Outside(cme.startTime) THEN << >>
            ELSE << MatchedEvent("cme", cme.startTime) >>
        sent == state.alertsSent
        flares == snapshot.recentFlares
        storms == snapshot.recentStorms
        cmes == snapshot.earthDirectedCMEs
    IN  Dedupe(Concat([i \in 1..Len(sent) |-> OfAlert(sent[i])])
               \o Concat([i \in 1..Len(flares) |-> OfFlare(flares[i])])
               \o Concat([i \in 1..Len(storms) |-> OfStorm(storms[i])])
               \o Concat([i \in 1..Len(cmes) |-> OfCme(cmes[i])]), {})

\* verify-predictions.ts verifyPendingPredictions: "window still open"
WindowOpenBug(prediction, now) == FALSE

WindowOpen(prediction, now) == prediction.windowEnd > now

\* verify-predictions.ts verifyPendingPredictions: is this prediction verified
\* in this pass
Due(prediction, now) == prediction.status = "pending" /\ ~WindowOpen(prediction, now)

\* verify-predictions.ts verifyPendingPredictions: the body of the loop
VerifyOne(prediction, state, snapshot, now) ==
    IF ~Due(prediction, now) THEN prediction
    ELSE LET matched == findMatchingEvents(prediction, state, snapshot)
         IN  [prediction EXCEPT !.matchedEvents = matched,
                                !.status = IF Len(matched) > 0 THEN "hit" ELSE "miss",
                                !.verifiedAt = now]

\* verify-predictions.ts notifyResult: the call of sendSignalMessage
notifyResult(prediction, now, hour) ==
    Delivery(Alert(<<"predict-result", prediction.id>>, "prediction-result", "info",
                   now, Null), "signal", now, hour)

(***************************************************************************)
(* The tick (scripts/checker.ts main) and the writers of the prediction    *)
(* store                                                                   *)
(***************************************************************************)
MaxTicks == 2
MaxPosts == 2
MaxBaseRuns == 1

SourceSet == Range(Sources)

\* new Date().getHours(), the host's clock being local time
Hour(now) == (now \div 60) % 24

\* a resilientFetch whose fn() has not returned
Pending == [settled |-> FALSE, data |-> Null, ok |-> FALSE, error |-> ""]

Settled(result) == [settled |-> TRUE] @@ result

NoTick ==
    [done |-> FALSE, n |-> 0, prev |-> DEFAULT_STATE, res |-> [s \in SourceSet |-> Pending],
     allAlerts |-> << >>, alertsToSend |-> << >>, now |-> NoTime,
     snapshot |-> BuildSnapshot(Pending, Pending, Pending, Pending, DEFAULT_STATE, NoTime)]

\* checker.ts:200  the catch block's state.lastRunAt, left as it was
CatchStateBug(state, now) == state

\* checker.ts:200  state.lastRunAt = new Date().toISOString()
CatchState(state, now) == [state EXCEPT !.lastRunAt = now]

\* run n ended in the catch block at time now: the step that threw, whether
\* the catch block's saveState returns or throws, and checker-state.json
\* as it was before the run
Failure(n, step, second, now, file) ==
    [n |-> n, step |-> step, second |-> second, now |-> now, file |-> file]

NoFail == Failure(Null, "none", "none", NoTime, NoStateFile)

\* the program between two runs, at time start, k being checker-state.json
\* and store being predictions.json
TickInitFrom(start, k, store) ==
    /\ tnow = start
    /\ K = k
    /\ tstate = DEFAULT_STATE
    /\ tpc = "idle"
    /\ tlock = FALSE
    /\ res = [s \in SourceSet |-> Pending]
    /\ timer = [s \in SourceSet |-> "cleared"]
    /\ delivered = << >>
    /\ lastTick = NoTick
    /\ ticks = 0
    /\ waits = 0
    /\ tfail = NoFail
    /\ tverified = 0
    /\ predStore = store
    /\ predState = EmptyStore
    /\ ppc = "idle"
    /\ postState = EmptyStore
    /\ postReply = NoReply
    /\ nextId = 1
    /\ posts = 0
    /\ bpc = "idle"
    /\ baseState = EmptyStore
    /\ baseRuns = 0
    /\ scorecard = NoScorecard
    /\ writes = {}

\* the program before its first run, at time start, store being predictions.json
TickInit(start, store) == TickInitFrom(start, NoStateFile, store)

\* the scheduler's interval passes: the host's clock moves on between one
\* run of the checker and the next, a run taking less than a minute
Wait(gap) ==
    /\ tpc = "idle"
    /\ waits < ticks
    /\ tnow' = tnow + gap
    /\ waits' = waits + 1
    /\ UNCHANGED <<K, tstate, tpc, tlock, res, timer, delivered, lastTick, ticks>>
    /\ UNCHANGED <<tfail, tverified>>
    /\ UNCHANGED <<lockVars, fsVars, predVars>>

\* checker.ts:42-65  the scheduler starts the checker, an interval after the
\* run before: acquireLock, loadState and the five resilientFetch calls.
\* acquireLock finds no lockfile, or the lockfile of a run that ended in
\* process.exit, whose holder is no longer alive (state.ts:103-128)
TickBegin ==
    /\ tpc = "idle"
    /\ ticks < MaxTicks
    /\ waits = ticks
    /\ tlock' = TRUE
    /\ tstate' = loadState(K)
    /\ res' = [s \in SourceSet |-> Pending]
    /\ timer' = [s \in SourceSet |-> "armed"]
    /\ tpc' = "fetching"
    /\ ticks' = ticks + 1
    /\ UNCHANGED <<tnow, K, delivered, lastTick, waits, tfail, tverified>>
    /\ UNCHANGED <<lockVars, fsVars, predVars>>

\* checker.ts:30-37  fn() of source s returns or throws
FetchReturn(s, fetched) ==
    /\ tpc = "fetching"
    /\ ~res[s].settled
    /\ res' = [res EXCEPT ![s] = Settled(FetchResult(fetched))]
    /\ timer' = [timer EXCEPT ![s] = IF fetched.ok /\ @ = "armed" THEN "cleared" ELSE @]
    /\ UNCHANGED <<tnow, K, tstate, tpc, tlock, delivered, lastTick, ticks, waits>>
    /\ UNCHANGED <<tfail, tverified>>
    /\ UNCHANGED <<lockVars, fsVars, predVars>>

\* checker.ts:28  the timer of source s fires: controller.abort(), on a
\* controller whose signal nothing holds
TimerFire(s) ==
    /\ timer[s] = "armed"
    /\ timer' = [timer EXCEPT ![s] = "fired"]
    /\ UNCHANGED <<tnow, K, tstate, tpc, tlock, res, delivered, lastTick, ticks, waits>>
    /\ UNCHANGED <<tfail, tverified>>
    /\ UNCHANGED <<lockVars, fsVars, predVars>>

\* checker.ts:76-82
HealthOf(results, existing, now) ==
    [i \in 1..Len(Sources) |->
        updateHealth(Sources[i], results[Sources[i]].ok, results[Sources[i]].error,
                     existing, now)]

\* checker.ts:59-185  Promise.allSettled resolves; the rest of the try block
\* down to the call of verifyPendingPredictions
TickFinish ==
    /\ tpc = "fetching"
    /\ \A s \in SourceSet : res[s].settled
    /\ LET regions == res["swpc-regions"]
           dataHealth == HealthOf(res, tstate.dataHealth, tnow)
           snapshot == BuildSnapshot(res["swpc"], res["donki"], res["swpc-realtime-wind"],
                                     res["swpc-realtime-mag"], tstate, tnow)
           activeRegions == IF regions.ok THEN regions.data ELSE << >>
           allAlerts == evaluateAlerts(snapshot, activeRegions, tstate, tnow)
           alertsToSend == FilterCooldown(allAlerts, tstate, tnow)
           cooled == recordCooldowns(alertsToSend, tstate, tnow)
           final == Saved(UpdateState(cooled, snapshot, activeRegions, dataHealth,
                                      alertsToSend, tnow))
       IN  /\ delivered' = delivered \o dispatchAlerts(alertsToSend, tnow, Hour(tnow))
           /\ tstate' = final
           /\ K' = stringify(final)
           /\ lastTick' = [done |-> TRUE, n |-> ticks, prev |-> tstate, res |-> res,
                           allAlerts |-> allAlerts, alertsToSend |-> alertsToSend,
                           now |-> tnow, snapshot |-> snapshot]
    /\ tpc' = "verify"
    /\ UNCHANGED <<tnow, tlock, res, timer, ticks, waits, tfail, tverified>>
    /\ UNCHANGED <<lockVars, fsVars, predVars>>

\* checker.ts:184-188  verifyPendingPredictions rejects, on reading the
\* store or on writing it after the notifications: main() logs the error
\* and goes on to its end, where the finally block releases the lock
VerifyThrow ==
    /\ tpc \in {"verify", "verify_save"}
    /\ tpc' = "idle"
    /\ tlock' = FALSE
    /\ predState' = EmptyStore
    /\ tverified' = ticks
    /\ tfail' = Failure(ticks, "verify", "none", tnow, K)
    /\ UNCHANGED <<tnow, K, tstate, res, timer, delivered, lastTick, ticks, waits>>
    /\ UNCHANGED <<predStore, ppc, postState, postReply, nextId, posts, bpc, baseState, baseRuns>>
    /\ UNCHANGED <<scorecard, writes>>
    /\ UNCHANGED <<lockVars, fsVars>>

\* checker.ts:59-205  a step of the try block throws: evaluateAlerts, on a
\* record the feed left incomplete, or saveState, whose write or rename
\* failed and which removed its temp file; the catch block sets lastRunAt
\* and calls saveState again.  If that returns, process.exit(1) ends the
\* process where it stands; if it throws, the finally block releases the
\* lock and the rejection ends the process.
TickThrow(step, second) ==
    /\ tpc = "fetching"
    /\ \A s \in SourceSet : res[s].settled
    /\ LET regions == res["swpc-regions"]
           dataHealth == HealthOf(res, tstate.dataHealth, tnow)
           snapshot == BuildSnapshot(res["swpc"], res["donki"], res["swpc-realtime-wind"],
                                     res["swpc-realtime-mag"], tstate, tnow)
           activeRegions == IF regions.ok THEN regions.data ELSE << >>
           allAlerts == evaluateAlerts(snapshot, activeRegions, tstate, tnow)
           alertsToSend == FilterCooldown(allAlerts, tstate, tnow)
           cooled == recordCooldowns(alertsToSend, tstate, tnow)
           reached == IF step = "evaluate" THEN tstate
                      ELSE Saved(UpdateState(cooled, snapshot, activeRegions, dataHealth,
                                             alertsToSend, tnow))
           caught == Saved(CatchState(reached, tnow))
       IN  /\ delivered' = IF step = "evaluate" THEN delivered
                           ELSE delivered \o dispatchAlerts(alertsToSend, tnow, Hour(tnow))
           /\ tstate' = caught
           /\ K' = IF second = "returns" THEN stringify(caught) ELSE K
    /\ tlock' = (second = "returns")
    /\ tfail' = Failure(ticks, step, second, tnow, K)
    /\ tpc' = "idle"
    /\ UNCHANGED <<tnow, res, timer, lastTick, ticks, waits, tverified>>
    /\ UNCHANGED <<lockVars, fsVars, predVars>>

\* verify-predictions.ts verifyPendingPredictions, from loadPredictions to
\* the call of savePredictions; checker.ts:204 when nothing changed
VerifyPending ==
    /\ tpc = "verify"
    /\ LET loaded == predStore
           due == SelectSeq(loaded.predictions, LAMBDA p : Due(p, tnow))
           verified == [i \in 1..Len(loaded.predictions) |->
                           VerifyOne(loaded.predictions[i], tstate, lastTick.snapshot, tnow)]
       IN  /\ delivered' = delivered
                \o [i \in 1..Len(due) |->
                       notifyResult(VerifyOne(due[i], tstate, lastTick.snapshot, tnow),
                                    tnow, Hour(tnow))]
           /\ IF due # << >>
              THEN /\ predState' = [loaded EXCEPT !.predictions = verified]
                   /\ tpc' = "verify_save" /\ tlock' = tlock
              ELSE /\ predState' = EmptyStore
                   /\ tpc' = "idle" /\ tlock' = FALSE
    /\ tverified' = ticks
    /\ UNCHANGED <<tnow, K, tstate, res, timer, lastTick, ticks, waits, tfail>>
    /\ UNCHANGED <<predStore, ppc, postState, postReply, nextId, posts, bpc, baseState, baseRuns>>
    /\ UNCHANGED <<scorecard, writes>>
    /\ UNCHANGED <<lockVars, fsVars>>

\* verify-predictions.ts verifyPendingPredictions: savePredictions;
\* checker.ts:204 releaseLock
VerifySave ==
    /\ tpc = "verify_save"
    /\ predStore' = CapPredictions(predState)
    /\ predState' = EmptyStore
    /\ tpc' = "idle"
    /\ tlock' = FALSE
    /\ writes' = writes \cup {Write("verify", tlock)}
    /\ UNCHANGED <<tnow, K, tstate, res, timer, delivered, lastTick, ticks, waits>>
    /\ UNCHANGED <<tfail, tverified>>
    /\ UNCHANGED <<ppc, postState, postReply, nextId, posts, bpc, baseState, baseRuns>>
    /\ UNCHANGED scorecard
    /\ UNCHANGED <<lockVars, fsVars>>

\* api/predictions POST, from loadPredictions to the call of savePredictions
PostLoad ==
    /\ ppc = "idle"
    /\ posts < MaxPosts
    /\ posts' = posts + 1
    /\ IF isWithinCooldown(predStore, tnow)
       THEN /\ postReply' = Reply(429, predStore, tnow, CooldownEnds(predStore), << >>,
                                  << >>)
            /\ UNCHANGED <<ppc, postState, nextId>>
       ELSE /\ postState' = [predStore EXCEPT
                                !.predictions = Append(@, Prediction(nextId, tnow))]
            /\ postReply' = Reply(0, predStore, tnow, NoTime, << >>, << >>)
            /\ nextId' = nextId + 1
            /\ ppc' = "saving"
    /\ UNCHANGED <<predStore, predState, bpc, baseState, baseRuns, scorecard, writes>>
    /\ UNCHANGED <<lockVars, fsVars, tickVars>>

\* api/predictions POST: savePredictions
PostSave ==
    /\ ppc = "saving"
    /\ predStore' = CapPredictions(postState)
    /\ postReply' = [postReply EXCEPT
                        !.status = 200,
                        !.prediction = << postState.predictions[Len(postState.predictions)] >>,
                        !.saved = CapPredictions(postState).predictions]
    /\ postState' = EmptyStore
    /\ ppc' = "idle"
    /\ writes' = writes \cup {Write("post", FALSE)}
    /\ UNCHANGED <<predState, nextId, posts, bpc, baseState, baseRuns, scorecard>>
    /\ UNCHANGED <<lockVars, fsVars, tickVars>>

\* compute-base-rate.ts:131-134
BaseLoad(baseRate) ==
    /\ bpc = "idle"
    /\ baseRuns < MaxBaseRuns
    /\ baseRuns' = baseRuns + 1
    /\ baseState' = [predStore EXCEPT !.baseRate = baseRate]
    /\ bpc' = "saving"
    /\ UNCHANGED <<predStore, predState, ppc, postState, postReply, nextId, posts>>
    /\ UNCHANGED <<scorecard, writes>>
    /\ UNCHANGED <<lockVars, fsVars, tickVars>>

\* compute-base-rate.ts:135
BaseSave ==
    /\ bpc = "saving"
    /\ predStore' = CapPredictions(baseState)
    /\ baseState' = EmptyStore
    /\ bpc' = "idle"
    /\ writes' = writes \cup {Write("base-rate", FALSE)}
    /\ UNCHANGED <<predState, ppc, postState, postReply, nextId, posts, baseRuns, scorecard>>
    /\ UNCHANGED <<lockVars, fsVars, tickVars>>

\* api/predictions GET: loadPredictions and computeScorecard
GetScorecard ==
    /\ scorecard' = computeScorecard(predStore, tnow)
    /\ UNCHANGED <<predStore, predState, ppc, postState, postReply, nextId, posts, bpc,
                   baseState, baseRuns, writes>>
    /\ UNCHANGED <<lockVars, fsVars, tickVars>>

(***************************************************************************)
(* Inputs: what the feeds deliver                                          *)
(***************************************************************************)
\* the third day of the run, 22:30 local time
StartTime == 2 * 1440 + 22 * 60 + 30

\* fn() threw an Error with this message
Fail(message) == [ok |-> FALSE, data |-> Null, message |-> message]

\* fn() returned data
Ok(data) == [ok |-> TRUE, data |-> data, message |-> ""]

Wind(speed, density) == [present |-> TRUE, bz |-> 0, speed |-> speed, density |-> density]

Mag(bz) == [present |-> TRUE, bz |-> bz, speed |-> 0, density |-> 0]

Swpc(kp) == [kp |-> kp, solarWind |-> Absent, magneticField |-> Absent, alerts |-> << >>]

Donki(cmes, flares, hss) ==
    [earthDirectedCMEs |-> cmes, flares |-> flares, storms |-> << >>, hss |-> hss]

Cme(id, predictedKp) ==
    [id |-> id, predictedKp |-> predictedKp, predictedArrival |-> StartTime + 1440,
     startTime |-> StartTime - 120]

Flare(id, letter, beginTime) ==
    [id |-> id, classType |-> <<letter, 15>>, beginTime |-> beginTime]

Region(regionNumber, flareProb_M, flareProb_X) ==
    [regionNumber |-> regionNumber, flareProb_M |-> flareProb_M,
     flareProb_X |-> flareProb_X]

\* a quiet sky, as source s reports it
Quiet(s) ==
    CASE s = "swpc" -> Swpc(3)
      [] s = "donki" -> Donki(<< >>, << >>, << >>)
      [] s = "swpc-regions" -> << >>
      [] s = "swpc-realtime-wind" -> Wind(400, 5)
      [] s = "swpc-realtime-mag" -> Mag(-2)

\* a prediction submitted so that its window ends 15 minutes after StartTime
OldPrediction == Prediction(0, StartTime + 15 - VerificationWindowHours * 60)

OneStore == [EmptyStore EXCEPT !.predictions = << OldPrediction >>]

(***************************************************************************)
(* Specifications                                                          *)
(***************************************************************************)
InitLock == LockInit /\ FsIdle /\ TickInit(StartTime, EmptyStore)

SpecLock == InitLock /\ [][LockNext]_vars

\* the same processes, started when a log file may have outgrown the limit
InitLogs ==
    /\ LockIdle
    /\ logs \in [LogFiles -> {LogFile(1, 0), LogFile(MaxLogSize + 1, 0)}]
    /\ FsIdle
    /\ TickInit(StartTime, EmptyStore)

SpecLogs == InitLogs /\ [][LockNext]_vars

InitSave == FsIdle /\ LockInit /\ TickInit(StartTime, EmptyStore)

SpecSave == InitSave /\ [][FsNext]_vars

\* ---- ticks whose feeds fail in every combination
HealthInputs(s) == {Fail("fetch failed"), Ok(Quiet(s))}

InitHealth == TickInit(StartTime, OneStore) /\ LockInit /\ FsIdle

NextHealth ==
    \/ Wait(15)
    \/ TickBegin
    \/ \E s \in SourceSet : \E fetched \in HealthInputs(s) : FetchReturn(s, fetched)
    \/ TickFinish
    \/ VerifyPending
    \/ VerifySave

SpecHealth == InitHealth /\ [][NextHealth]_vars

\* ---- ticks that see two M flares, then a third flare of class X, a CME
\* whose forecast is revised, a stream and a region
DonkiA ==
    Donki(<< Cme(1, 4) >>,
          << Flare(1, "M", StartTime - 30), Flare(2, "M", StartTime - 20) >>,
          << [id |-> 1] >>)

DonkiB ==
    Donki(<< Cme(1, 7) >>,
          << Flare(1, "M", StartTime - 30), Flare(2, "M", StartTime - 20),
             Flare(3, "X", StartTime + 10) >>,
          << [id |-> 1] >>)

AlertInputs(s) ==
    CASE s = "donki" -> {Fail("fetch failed"), Ok(DonkiA), Ok(DonkiB)}
      [] s = "swpc" -> {Ok(Swpc(3)), Ok(Swpc(5))}
      [] s = "swpc-regions" -> {Ok(<< Region(4001, 40, 5) >>)}
      [] OTHER -> {Ok(Quiet(s))}

InitAlerts == TickInit(StartTime, OneStore) /\ LockInit /\ FsIdle

NextAlerts ==
    \/ Wait(60)
    \/ TickBegin
    \/ \E s \in SourceSet : \E fetched \in AlertInputs(s) : FetchReturn(s, fetched)
    \/ TickFinish
    \/ VerifyPending
    \/ VerifySave

SpecAlerts == InitAlerts /\ [][NextAlerts]_vars

\* ---- ticks whose fetchers may never return
FetchInputs(s) ==
    IF s = "donki" THEN {Fail("fetch failed"), Ok(Quiet(s))} ELSE {Ok(Quiet(s))}

InitFetch == TickInit(StartTime, OneStore) /\ LockInit /\ FsIdle

NextFetch ==
    \/ Wait(15)
    \/ TickBegin
    \/ \E s \in SourceSet : \E fetched \in FetchInputs(s) : FetchReturn(s, fetched)
    \/ \E s \in SourceSet : TimerFire(s)
    \/ TickFinish
    \/ VerifyPending
    \/ VerifySave

\* the program takes every step of its own; a feed need not answer
SpecFetch ==
    /\ InitFetch
    /\ [][NextFetch]_vars
    /\ \A s \in SourceSet : WF_vars(TimerFire(s))
    /\ WF_vars(TickFinish)
    /\ WF_vars(VerifyPending)
    /\ WF_vars(VerifySave)

\* ---- predictions submitted, verified and re-based while ticks run
PredInputs(s) ==
    IF s = "donki"
    THEN {Ok(Quiet(s)), Ok(Donki(<< >>, << Flare(1, "M", StartTime + 30) >>, << >>))}
    ELSE {Ok(Quiet(s))}

InitPred == TickInit(StartTime, EmptyStore) /\ LockInit /\ FsIdle

\* the fetchers listed before s have answered.  The store's writers see
\* nothing of the fetchers, and the tick sees them only once all have
\* answered, so here they answer in the order of the list.
InOrder(s) ==
    \A i \in 1..Len(Sources) : \A j \in 1..Len(Sources) :
        Sources[i] = s /\ j < i => res[Sources[j]].settled

NextPred ==
    \/ \E gap \in {60, VerificationWindowHours * 60} : Wait(gap)
    \/ TickBegin
    \/ \E s \in SourceSet : \E fetched \in PredInputs(s) :
          InOrder(s) /\ FetchReturn(s, fetched)
    \/ TickFinish
    \/ VerifyPending
    \/ VerifySave
    \/ PostLoad
    \/ PostSave
    \/ BaseLoad(25)
    \/ BaseSave

SpecPred == InitPred /\ [][NextPred]_vars

\* ---- ticks and submissions that start from a full history
\* n alerts sent long ago, as a checker that has run for months keeps them
History(n) ==
    [i \in 1..n |-> Alert(<<"kp-cross-4", i>>, "kp-elevated", "info", i, Null)]

\* m predictions, one every cooldownHours up to StartTime - cooldownHours,
\* all verified as misses when their windows ended
Archive(m) ==
    [i \in 1..m |->
        [Prediction(i - m, StartTime - (m - i + 1) * CooldownHours * 60) EXCEPT
            !.status = "miss",
            !.verifiedAt = StartTime - (m - i + 1) * CooldownHours * 60
                              + VerificationWindowHours * 60]]

CapInputs(s) ==
    IF s = "donki" THEN {Ok(DonkiA), Ok(DonkiB)}
    ELSE IF s = "swpc-regions" THEN {Ok(<< Region(4001, 40, 5) >>)}
    ELSE {Ok(Quiet(s))}

InitCap ==
    /\ \E n \in {MaxAlertHistory - 3, MaxAlertHistory} :
       \E m \in {MaxPredictions - 1, MaxPredictions} :
          TickInitFrom(StartTime,
                       stringify([DEFAULT_STATE EXCEPT !.alertsSent = History(n)]),
                       [EmptyStore EXCEPT !.predictions = Archive(m)])
    /\ LockInit
    /\ FsIdle

NextCap ==
    \/ Wait(60)
    \/ TickBegin
    \/ \E s \in SourceSet : \E fetched \in CapInputs(s) :
          InOrder(s) /\ FetchReturn(s, fetched)
    \/ TickFinish
    \/ VerifyPending
    \/ PostLoad
    \/ PostSave

SpecCap == InitCap /\ [][NextCap]_vars

\* ---- ticks that see CMEs whose forecasts are new, revised upward or
\* downward, or unchanged
\* checker.ts:59-181  the state a tick saves, given the state it loaded and
\* what its fetchers returned
RunTick(state, fetched, now) ==
    LET results == [s \in SourceSet |-> Settled(FetchResult(fetched[s]))]
        regions == results["swpc-regions"]
        dataHealth == HealthOf(results, state.dataHealth, now)
        snapshot == BuildSnapshot(results["swpc"], results["donki"],
                                  results["swpc-realtime-wind"],
                                  results["swpc-realtime-mag"], state, now)
        activeRegions == IF regions.ok THEN regions.data ELSE << >>
        alertsToSend == FilterCooldown(evaluateAlerts(snapshot, activeRegions, state, now),
                                       state, now)
    IN  Saved(UpdateState(recordCooldowns(alertsToSend, state, now), snapshot, activeRegions,
                          dataHealth, alertsToSend, now))

\* the feeds of a tick whose DONKI feed returned donki, on a quiet sky
WithDonki(donki) == [s \in SourceSet |-> IF s = "donki" THEN Ok(donki) ELSE Ok(Quiet(s))]

\* checker-state.json after a first tick, a quarter of an hour before
\* StartTime, that saw CME 1 with a forecast of Kp 4
CmeSeen ==
    stringify(RunTick(DEFAULT_STATE, WithDonki(Donki(<< Cme(1, 4) >>, << >>, << >>)),
                      StartTime - 15))

CmeInputs(s) ==
    IF s = "donki"
    THEN {Fail("fetch failed")}
         \cup {Ok(Donki(<< Cme(1, kp) >>, << >>, << >>)) : kp \in {Null, 4, 5, 6, 7}}
         \cup {Ok(Donki(<< Cme(1, 7), Cme(3, kp) >>, << >>, << >>)) : kp \in {Null, 6, 7}}
         \cup {Ok(Donki(<< Cme(1, 7), Cme(3, Null), Cme(4, 7) >>, << >>, << >>))}
    ELSE {Ok(Quiet(s))}

InitCme == TickInitFrom(StartTime, CmeSeen, EmptyStore) /\ LockInit /\ FsIdle

NextCme ==
    \/ Wait(15)
    \/ TickBegin
    \/ \E s \in SourceSet : \E fetched \in CmeInputs(s) :
          InOrder(s) /\ FetchReturn(s, fetched)
    \/ TickFinish
    \/ VerifyPending

SpecCme == InitCme /\ [][NextCme]_vars

\* ---- ticks that see flares of every class, the class letter in either
\* case
FlareInputs(s) ==
    IF s = "donki"
    THEN {Ok(Donki(<< >>, << Flare(1, letter, StartTime - 30) >>, << >>)) :
             letter \in {"X", "M", "C", "B", "x"}}
         \cup {Ok(Donki(<< >>, << Flare(1, "M", StartTime - 30),
                                  Flare(2, letter, StartTime - 20) >>, << >>)) :
                  letter \in {"X", "M", "C", "m"}}
    ELSE {Ok(Quiet(s))}

InitFlare == TickInit(StartTime, EmptyStore) /\ LockInit /\ FsIdle

NextFlare ==
    \/ Wait(15)
    \/ TickBegin
    \/ \E s \in SourceSet : \E fetched \in FlareInputs(s) :
          InOrder(s) /\ FetchReturn(s, fetched)
    \/ TickFinish
    \/ VerifyPending

SpecFlare == InitFlare /\ [][NextFlare]_vars

\* ---- ticks whose Kp lies on every side of the thresholds, or is missing
KpInputs(s) ==
    IF s = "swpc"
    THEN {Fail("fetch failed")} \cup {Ok(Swpc(kp)) : kp \in {3, 4, 5, 6, 7, 8}}
    ELSE {Ok(Quiet(s))}

InitKp == TickInit(StartTime, EmptyStore) /\ LockInit /\ FsIdle

NextKp ==
    \/ Wait(15)
    \/ TickBegin
    \/ \E s \in SourceSet : \E fetched \in KpInputs(s) :
          InOrder(s) /\ FetchReturn(s, fetched)
    \/ TickFinish
    \/ VerifyPending

SpecKp == InitKp /\ [][NextKp]_vars

\* ---- ticks after a storm: checker-state.json is what a tick a quarter of
\* an hour before StartTime saved, which saw Kp 6
StormSeen ==
    stringify(RunTick(DEFAULT_STATE,
                      [s \in SourceSet |-> IF s = "swpc" THEN Ok(Swpc(6)) ELSE Ok(Quiet(s))],
                      StartTime - 15))

InitClear == TickInitFrom(StartTime, StormSeen, EmptyStore) /\ LockInit /\ FsIdle

NextClear ==
    \/ Wait(15)
    \/ TickBegin
    \/ \E s \in SourceSet : \E fetched \in KpInputs(s) :
          InOrder(s) /\ FetchReturn(s, fetched)
    \/ TickFinish
    \/ VerifyPending

SpecClear == InitClear /\ [][NextClear]_vars

\* ---- ticks after a short storm: checker-state.json is what two ticks
\* saved, one half an hour before StartTime that saw Kp 5 and sent the
\* kp-threshold alert, and one a quarter of an hour later that saw Kp 3
WithKp(kp) == [s \in SourceSet |-> IF s = "swpc" THEN Ok(Swpc(kp)) ELSE Ok(Quiet(s))]

StormOver ==
    stringify(RunTick(RunTick(DEFAULT_STATE, WithKp(5), StartTime - 30),
                      WithKp(3), StartTime - 15))

\* minutes from the first tick to the second when the storm outlasts the
\* cooldown of kp-threshold
LongGap == Cooldown("kp-threshold") + 15

InitStorm == TickInitFrom(StartTime, StormOver, EmptyStore) /\ LockInit /\ FsIdle

NextStorm ==
    \/ Wait(15)
    \/ Wait(LongGap)
    \/ TickBegin
    \/ \E s \in SourceSet : \E fetched \in KpInputs(s) :
          InOrder(s) /\ FetchReturn(s, fetched)
    \/ TickFinish
    \/ VerifyPending

SpecStorm == InitStorm /\ [][NextStorm]_vars

\* ---- ticks whose Bz and wind readings lie on every side of the
\* thresholds, or are missing
CrossInputs(s) ==
    CASE s = "swpc-realtime-mag" ->
            {Fail("fetch failed"), Ok(Mag(-2)), Ok(Mag(-10)), Ok(Mag(-15))}
      [] s = "swpc-realtime-wind" ->
            {Fail("fetch failed"), Ok(Wind(400, 5)), Ok(Wind(600, 20)), Ok(Wind(700, 5))}
      [] OTHER -> {Ok(Quiet(s))}

InitCross == TickInit(StartTime, EmptyStore) /\ LockInit /\ FsIdle

NextCross ==
    \/ Wait(15)
    \/ TickBegin
    \/ \E s \in SourceSet : \E fetched \in CrossInputs(s) :
          InOrder(s) /\ FetchReturn(s, fetched)
    \/ TickFinish
    \/ VerifyPending

SpecCross == InitCross /\ [][NextCross]_vars

\* ---- ticks a quarter of an hour or an hour apart, the later ones in the
\* quiet hours, that see Bz crossings (cooldown 60) and new X flares
\* (cooldown 0)
CoolInputs(s) ==
    CASE s = "swpc-realtime-mag" -> {Ok(Mag(-2)), Ok(Mag(-10)), Ok(Mag(-15))}
      [] s = "donki" ->
            {Ok(Quiet(s))} \cup
            {Ok(Donki(<< >>, << Flare(id, "X", StartTime - 30) >>, << >>)) : id \in {1, 2}}
      [] OTHER -> {Ok(Quiet(s))}

InitCool == TickInit(StartTime, EmptyStore) /\ LockInit /\ FsIdle

NextCool ==
    \/ Wait(15)
    \/ Wait(60)
    \/ TickBegin
    \/ \E s \in SourceSet : \E fetched \in CoolInputs(s) :
          InOrder(s) /\ FetchReturn(s, fetched)
    \/ TickFinish
    \/ VerifyPending

SpecCool == InitCool /\ [][NextCool]_vars

\* ---- ticks that see none, one or several info alerts (Kp reaching 4, new
\* active regions) next to alerts of other urgencies
InfoInputs(s) ==
    CASE s = "swpc" -> {Ok(Swpc(3)), Ok(Swpc(4)), Ok(Swpc(5))}
      [] s = "swpc-regions" ->
            {Ok(<< >>), Ok(<< Region(4001, 40, 5) >>),
             Ok(<< Region(4001, 40, 5), Region(4002, 10, 15) >>)}
      [] s = "swpc-realtime-mag" -> {Ok(Mag(-2)), Ok(Mag(-10))}
      [] OTHER -> {Ok(Quiet(s))}

InitInfo == TickInit(StartTime, EmptyStore) /\ LockInit /\ FsIdle

NextInfo ==
    \/ Wait(15)
    \/ TickBegin
    \/ \E s \in SourceSet : \E fetched \in InfoInputs(s) :
          InOrder(s) /\ FetchReturn(s, fetched)
    \/ TickFinish
    \/ VerifyPending

SpecInfo == InitInfo /\ [][NextInfo]_vars

\* ---- ticks in which a step may throw
FailInputs(s) ==
    CASE s = "donki" -> {Fail("fetch failed"), Ok(DonkiA)}
      [] s = "swpc" -> {Ok(Swpc(3)), Ok(Swpc(5))}
      [] OTHER -> {Ok(Quiet(s))}

InitFail == TickInit(StartTime, OneStore) /\ LockInit /\ FsIdle

NextFail ==
    \/ Wait(15)
    \/ TickBegin
    \/ \E s \in SourceSet : \E fetched \in FailInputs(s) :
          InOrder(s) /\ FetchReturn(s, fetched)
    \/ TickFinish
    \/ \E step \in {"evaluate", "save"} : \E second \in {"returns", "throws"} :
          TickThrow(step, second)
    \/ VerifyPending
    \/ VerifySave

SpecFail == InitFail /\ [][NextFail]_vars

\* ---- ticks that send alerts and then verify a prediction, or fail to
VerifyInputs(s) ==
    CASE s = "swpc" -> {Ok(Swpc(3)), Ok(Swpc(5))}
      [] s = "swpc-realtime-mag" -> {Ok(Mag(-2)), Ok(Mag(-10))}
      [] OTHER -> {Ok(Quiet(s))}

InitVerify == TickInit(StartTime, OneStore) /\ LockInit /\ FsIdle

NextVerify ==
    \/ Wait(15)
    \/ TickBegin
    \/ \E s \in SourceSet : \E fetched \in VerifyInputs(s) :
          InOrder(s) /\ FetchReturn(s, fetched)
    \/ TickFinish
    \/ VerifyPending
    \/ VerifySave
    \/ VerifyThrow

SpecVerify == InitVerify /\ [][NextVerify]_vars

\* ---- ticks in which every source answers or fails, so that readings and
\* events come and go
StateInputs(s) ==
    CASE s = "swpc" ->
            {Fail("fetch failed"),
             Ok([Swpc(7) EXCEPT !.alerts = << [productId |-> 11], [productId |-> 12] >>])}
      [] s = "donki" -> {Fail("fetch failed"), Ok(DonkiA)}
      [] s = "swpc-regions" -> {Fail("fetch failed"), Ok(<< Region(4001, 40, 5) >>)}
      [] s = "swpc-realtime-wind" -> {Fail("fetch failed"), Ok(Wind(700, 20))}
      [] s = "swpc-realtime-mag" -> {Fail("fetch failed"), Ok(Mag(-15))}

InitState == TickInit(StartTime, EmptyStore) /\ LockInit /\ FsIdle

NextState ==
    \/ Wait(15)
    \/ TickBegin
    \/ \E s \in SourceSet : \E fetched \in StateInputs(s) :
          InOrder(s) /\ FetchReturn(s, fetched)
    \/ TickFinish
    \/ VerifyPending

SpecState == InitState /\ [][NextState]_vars

\* ---- ticks that verify a prediction against events at, inside and outside
\* the two ends of its window
Storm(startTime, kpIndex) == [startTime |-> startTime, kpIndex |-> kpIndex]

MatchInputs(s) ==
    CASE s = "donki" ->
            LET start == OldPrediction.timestamp
                end == OldPrediction.windowEnd
                Flares(f) == Donki(<< >>, f, << >>)
                Storms(x) == [Donki(<< >>, << >>, << >>) EXCEPT !.storms = x]
            IN  {Ok(Quiet(s)),
                 Ok(Flares(<< Flare(1, "M", end) >>)),
                 Ok(Flares(<< Flare(1, "C", end - 5) >>)),
                 Ok(Flares(<< Flare(1, "X", start - 1) >>)),
                 Ok(Flares(<< Flare(1, "M", end - 5), Flare(2, "X", end - 5) >>)),
                 Ok(Storms(<< Storm(start, 5) >>)),
                 Ok(Storms(<< Storm(end - 5, 4), Storm(end + 1, 6) >>)),
                 Ok(Donki(<< Cme(1, 4) >>, << >>, << >>))}
      [] s = "swpc" -> {Ok(Swpc(3)), Ok(Swpc(5))}
      [] OTHER -> {Ok(Quiet(s))}

InitMatch == TickInit(StartTime, OneStore) /\ LockInit /\ FsIdle

NextMatch ==
    \/ Wait(15)
    \/ TickBegin
    \/ \E s \in SourceSet : \E fetched \in MatchInputs(s) :
          InOrder(s) /\ FetchReturn(s, fetched)
    \/ TickFinish
    \/ VerifyPending
    \/ VerifySave

SpecMatch == InitMatch /\ [][NextMatch]_vars

\* ---- the scorecard of every short store
MaxStored == 3

\* the stores of up to MaxStored predictions, one every cooldownHours, each
\* pending, hit or miss
ScoreStores ==
    UNION {
        { [predictions |->
              [i \in 1..n |->
                  [Prediction(i, StartTime - (n - i + 1) * CooldownHours * 60) EXCEPT
                      !.status = st[i]]],
           baseRate |-> r] :
          st \in [1..n -> {"pending", "hit", "miss"}],
          r \in {Null, 0, 25, 50, Percent} } :
        n \in 0..MaxStored }

InitScore ==
    /\ \E store \in ScoreStores : TickInit(StartTime, store)
    /\ LockInit
    /\ FsIdle

NextScore == GetScorecard

SpecScore == InitScore /\ [][NextScore]_vars

(***************************************************************************)
(* Claims about the tick                                                   *)
(***************************************************************************)
\* the alerts of two deliveries are different alerts of one type
SameTypeApart(d, e) == d.alert.type = e.alert.type /\ d.alert.id # e.alert.id

\* C2: for every alert type with cooldown c > 0, any two dispatched alerts
\* of that type are at least c minutes apart, whether they come from
\* different ticks or from the same tick.
C2_CooldownSpacing ==
    \A i \in 1..Len(delivered) : \A j \in 1..Len(delivered) :
        (/\ i < j
         /\ SameTypeApart(delivered[i], delivered[j])
         /\ Cooldown(delivered[i].alert.type) > 0)
        => delivered[j].time - delivered[i].time >= Cooldown(delivered[i].alert.type)

KnownCmeIds == {lastTick.prev.knownCMEs[i].id : i \in 1..Len(lastTick.prev.knownCMEs)}

\* C3, as stated: evaluateAlerts never emits an alert whose source event id
\* (CME id, flare id, HSS id, region number) is in the corresponding known*
\* set of the previous state.
C3_NoAlertForKnown ==
    lastTick.done =>
        \A a \in Range(lastTick.allAlerts) :
            /\ a.type \in {"cme-earth", "cme-revision"} => a.sourceEventId \notin KnownCmeIds
            /\ a.type \in {"flare-x", "flare-m"}
                  => a.sourceEventId \notin Range(lastTick.prev.knownFlareIds)
            /\ a.type = "hss-arrival"
                  => a.sourceEventId \notin Range(lastTick.prev.knownHSSIds)
            /\ a.type = "active-region"
                  => a.id[2] \notin Range(lastTick.prev.knownRegionNumbers)

\* C3, amended: evaluateAlerts never emits a new-event alert (cme-earth,
\* flare-x, flare-m, hss-arrival, active-region) for an event id that is in
\* the corresponding known* set of the previous state; the one alert it
\* emits for a known id is cme-revision, for a known CME whose predictedKp
\* rose by at least kpJump to at least 5.
C3_NoNewEventAlertForKnown ==
    lastTick.done =>
        \A a \in Range(lastTick.allAlerts) :
            /\ a.type = "cme-earth" => a.sourceEventId \notin KnownCmeIds
            /\ a.type \in {"flare-x", "flare-m"}
                  => a.sourceEventId \notin Range(lastTick.prev.knownFlareIds)
            /\ a.type = "hss-arrival"
                  => a.sourceEventId \notin Range(lastTick.prev.knownHSSIds)
            /\ a.type = "active-region"
                  => a.id[2] \notin Range(lastTick.prev.knownRegionNumbers)
            /\ a.type = "cme-revision"
                  => \E k \in Range(lastTick.prev.knownCMEs) :
                        \E c \in Range(lastTick.snapshot.earthDirectedCMEs) :
                            /\ k.id = a.sourceEventId /\ c.id = k.id
                            /\ c.predictedKp - k.predictedKp >= 2
                            /\ c.predictedKp >= 5

\* a tick whose snapshot repeats a known CME, flare and stream, and that
\* emitted a revision for the CME and an alert for a flare it had not seen
C3_Witness ==
    /\ lastTick.done
    /\ \E c \in Range(lastTick.snapshot.earthDirectedCMEs) : c.id \in KnownCmeIds
    /\ \E f \in Range(lastTick.snapshot.recentFlares) :
          f.id \in Range(lastTick.prev.knownFlareIds)
    /\ \E h \in Range(lastTick.snapshot.recentHSS) :
          h.id \in Range(lastTick.prev.knownHSSIds)
    /\ \E a \in Range(lastTick.allAlerts) : a.type = "cme-revision"
    /\ \E a \in Range(lastTick.allAlerts) : a.type = "flare-x"

\* the quiet-hours window of the configuration: 23:00 to 06:59
InQuietWindow(hour) == hour >= 23 \/ hour < 7

\* C4: no alert or notification whose urgency is not critical is delivered
\* to any channel while the local hour is inside the quiet-hours window.
C4_QuietHours ==
    \A i \in 1..Len(delivered) :
        delivered[i].alert.urgency # "critical" => ~InQuietWindow(delivered[i].hour)

\* the entry of source in a dataHealth list, << >> if there is none
EntryOf(source, dataHealth) == SelectSeq(dataHealth, LAMBDA d : d.source = source)

\* C8: whichever fetchers fail, the tick runs to its end: it saves the state
\* and releases the lock, and the saved dataHealth has exactly one entry per
\* source, in order, with ok = false and the error for a failed source and
\* lastSuccess carried over from the source's entry in the previous state
\* (the epoch if it had none), and lastSuccess = now for a source that
\* answered.
C8_FailureIsolated ==
    /\ tpc \in {"idle", "verify", "verify_save"} => lastTick.n = ticks
    /\ tpc = "idle" => ~tlock
    /\ lastTick.done =>
          /\ K.lastRunAt = lastTick.now
          /\ Len(K.dataHealth) = 5
          /\ \A i \in 1..5 :
                LET e == K.dataHealth[i]
                    r == lastTick.res[Sources[i]]
                    before == EntryOf(Sources[i], lastTick.prev.dataHealth)
                IN  /\ e.source = Sources[i]
                    /\ e.ok = r.ok
                    /\ r.ok => e.lastSuccess = lastTick.now /\ LastErrorOf(e) = Undefined
                    /\ ~r.ok =>
                          /\ LastErrorOf(e) = r.error /\ LastErrorOf(e) # Undefined
                          /\ e.lastSuccess = IF before = << >> THEN Epoch
                                             ELSE before[1].lastSuccess

\* a finished tick in which all five fetchers failed, each having answered
\* in an earlier tick
C8_Witness ==
    /\ tpc = "idle"
    /\ lastTick.done
    /\ \A s \in SourceSet :
          /\ ~lastTick.res[s].ok
          /\ EntryOf(s, lastTick.prev.dataHealth) # << >>
          /\ EntryOf(s, lastTick.prev.dataHealth)[1].lastSuccess > Epoch
          /\ EntryOf(s, K.dataHealth)[1].lastSuccess < lastTick.now

\* C9: a fetcher that has not returned when its timer fires is treated as
\* failed and the tick completes: from every state in which the tick is
\* waiting for its fetchers and the timer of source s has fired, the tick
\* reaches its end.
C9_DeadlineCompletes ==
    \A s \in SourceSet : (tpc = "fetching" /\ timer[s] = "fired") ~> (tpc = "idle")

\* C10: in the persisted store, every prediction with status hit or miss
\* has verifiedAt >= windowEnd and has matched events exactly when it is a
\* hit; a pending prediction has no verifiedAt.
C10_VerifiedConsistent ==
    \A i \in 1..Len(predStore.predictions) :
        LET p == predStore.predictions[i]
        IN  /\ p.status \in {"pending", "hit", "miss"}
            /\ p.status \in {"hit", "miss"} =>
                  /\ p.verifiedAt # NoTime
                  /\ p.verifiedAt >= p.windowEnd
                  /\ (Len(p.matchedEvents) > 0 <=> p.status = "hit")
            /\ p.status = "pending" => p.verifiedAt = NoTime

\* the store holds a prediction submitted through POST and verified as a hit
C10_Witness ==
    \E i \in 1..Len(predStore.predictions) :
        /\ predStore.predictions[i].status = "hit"
        /\ predStore.predictions[i].id >= 1
        /\ predStore.predictions[i].verifiedAt >= predStore.predictions[i].windowEnd

(***************************************************************************)
(* Claims about the prediction store                                       *)
(***************************************************************************)
\* C11: a submission is accepted only if the store it loaded is empty or its
\* last prediction is at least cooldownHours old; an accepted one saves the
\* loaded predictions plus exactly one pending prediction with windowEnd =
\* timestamp + verificationWindowHours; a rejected one answers 429 with
\* cooldownEnds and saves nothing; consecutive predictions in the store are
\* at least cooldownHours apart.
C11_SubmitCooldown ==
    /\ \A i \in 1..(Len(predStore.predictions) - 1) :
          predStore.predictions[i + 1].timestamp - predStore.predictions[i].timestamp
             >= 6 * 60
    /\ LET old == postReply.loaded.predictions
           young == old # << >> /\ postReply.at - old[Len(old)].timestamp < 6 * 60
       IN  /\ postReply.status = 429 =>
                 /\ young
                 /\ postReply.cooldownEnds = old[Len(old)].timestamp + 6 * 60
                 /\ postReply.prediction = << >> /\ postReply.saved = << >>
                 /\ ppc = "idle"
           /\ postReply.status = 200 =>
                 /\ ~young
                 /\ Len(postReply.prediction) = 1
                 /\ postReply.saved = old \o postReply.prediction
                 /\ postReply.prediction[1].status = "pending"
                 /\ postReply.prediction[1].verifiedAt = NoTime
                 /\ postReply.prediction[1].matchedEvents = << >>
                 /\ postReply.prediction[1].timestamp = postReply.at
                 /\ postReply.prediction[1].windowEnd = postReply.at + 48 * 60
                 /\ \A i \in 1..Len(old) : old[i].id # postReply.prediction[1].id

\* a submission was rejected an hour after the one before it, and the store
\* still holds that one prediction
C11_Witness ==
    /\ postReply.status = 429
    /\ postReply.at - postReply.loaded.predictions[1].timestamp = 60
    /\ Len(predStore.predictions) = 1
    /\ posts = 2

\* all of x when it has at most n elements, else its last n
Newest(x, n) == IF Len(x) <= n THEN x ELSE [i \in 1..n |-> x[Len(x) - n + i]]

\* C12: every persisted checker state has at most 100 alertsSent, the most
\* recent of the loaded history plus the alerts of the tick; every persisted
\* prediction store has at most 500 predictions, the last of what the
\* writer loaded plus what it appended.
C12_HistoryCapped ==
    /\ Len(K.alertsSent) <= 100
    /\ lastTick.done =>
          K.alertsSent = Newest(lastTick.prev.alertsSent \o lastTick.alertsToSend, 100)
    /\ Len(predStore.predictions) <= 500
    /\ postReply.status = 200 =>
          postReply.saved = Newest(postReply.loaded.predictions \o postReply.prediction, 500)

\* a tick that sent alerts on top of a history of 100, and a submission
\* saved on top of 500 predictions
C12_Witness ==
    /\ lastTick.done
    /\ Len(lastTick.prev.alertsSent) = 100
    /\ Len(lastTick.alertsToSend) >= 2
    /\ Len(K.alertsSent) = 100
    /\ postReply.status = 200
    /\ Len(postReply.loaded.predictions) = 500
    /\ predStore.predictions = postReply.saved


(***************************************************************************)
(* Claims about the state file                                             *)
(***************************************************************************)
\* two data-health entries with the same values: lastError is an optional
\* property, and one that is not there reads as undefined
SameEntry(d, e) ==
    /\ d.source = e.source
    /\ d.ok = e.ok
    /\ d.lastSuccess = e.lastSuccess
    /\ LastErrorOf(d) = LastErrorOf(e)

\* two checker states with the same values
SameState(a, b) ==
    /\ DOMAIN a = DOMAIN b
    /\ \A k \in DOMAIN a \ {"dataHealth"} : a[k] = b[k]
    /\ Len(a.dataHealth) = Len(b.dataHealth)
    /\ \A i \in 1..Len(a.dataHealth) : SameEntry(a.dataHealth[i], b.dataHealth[i])

InUnit(r) == r.den > 0 /\ 0 <= r.num /\ r.num <= r.den

\* C14: the counts of a scorecard add up to the number of predictions;
\* hitRate is none exactly when no prediction is verified and otherwise lies
\* in [0,1]; pValue is none when there is no base rate or no verified
\* prediction, and otherwise lies in [0,1].
C14_Scorecard ==
    scorecard # NoScorecard =>
        /\ scorecard.hits + scorecard.misses + scorecard.pending
              = scorecard.totalPredictions
        /\ scorecard.totalPredictions = Len(predStore.predictions)
        /\ (scorecard.hitRate = NoRatio) <=> (scorecard.hits + scorecard.misses = 0)
        /\ scorecard.hitRate # NoRatio => InUnit(scorecard.hitRate)
        /\ (scorecard.pValue = NoRatio)
              <=> (predStore.baseRate = Null \/ scorecard.hits + scorecard.misses = 0)
        /\ scorecard.pValue # NoRatio => InUnit(scorecard.pValue)

\* C14 as stated: whenever a base rate is available, pValue is a number
\* in [0,1].
C14_PValueWheneverBaseRate ==
    scorecard # NoScorecard /\ predStore.baseRate # Null =>
        scorecard.pValue # NoRatio /\ InUnit(scorecard.pValue)

\* a scorecard of a hit, a miss and a pending prediction, with a p-value
\* strictly between 0 and 1
C14_Witness ==
    /\ scorecard # NoScorecard
    /\ scorecard.hits > 0 /\ scorecard.misses > 0 /\ scorecard.pending > 0
    /\ scorecard.pValue # NoRatio
    /\ 0 < scorecard.pValue.num /\ scorecard.pValue.num < scorecard.pValue.den

(***************************************************************************)
(* Claims about the writers of the prediction store                        *)
(***************************************************************************)
\* C15: the prediction store is written only by a process that holds the
\* checker's lockfile: every call of savePredictions, by the verification at
\* the end of a tick, by POST and by the base-rate computation, is made by a
\* caller holding the lock.
C15_WritesUnderLock == \A w \in writes : w.locked

(***************************************************************************)
(* Claims about a tick that fails                                          *)
(***************************************************************************)
\* C16: when saveState fails, the previous checker-state.json is left as it
\* was and the tick is still completed: the prediction verification of that
\* tick runs and the lock is released.
C16_SaveFailureTolerated ==
    tfail.n = ticks /\ tfail.step = "save" /\ tpc = "idle" =>
        /\ tfail.second = "throws" => K = tfail.file
        /\ tverified = ticks
        /\ ~tlock

\* C17: a tick in which a step threw has set lastRunAt to the time of the
\* tick and called saveState again: if that call returns, the state file
\* holds the state with this lastRunAt, and if it throws, the state file is
\* as it was before the tick.
C17_CatchPersists ==
    tfail.n = ticks /\ tpc = "idle" =>
        /\ tstate.lastRunAt = tfail.now
        /\ tfail.second = "returns" =>
              /\ SameState(loadState(K), tstate)
              /\ loadState(K).lastRunAt = tfail.now
        /\ tfail.second = "throws" => K = tfail.file

\* C17 as stated: after a tick in which a step threw, the state file holds
\* the lastRunAt of that tick.
C17_AlwaysPersisted ==
    tfail.n = ticks /\ tpc = "idle" => loadState(K).lastRunAt = tfail.now

\* the second tick threw in evaluateAlerts, and the state file holds what
\* the first tick saved, with the lastRunAt of the second
C17_Witness ==
    /\ tfail.n = ticks /\ ticks = 2 /\ tpc = "idle"
    /\ tfail.step = "evaluate" /\ tfail.second = "returns"
    /\ loadState(tfail.file).lastRunAt < tfail.now
    /\ loadState(tfail.file).lastRunAt > Epoch
    /\ loadState(K).lastRunAt = tfail.now
    /\ loadState(K).alertsSent = loadState(tfail.file).alertsSent

(***************************************************************************)
(* Claims about the routing of notifications                               *)
(***************************************************************************)
\* the channels on which an alert was delivered at a time
ChannelsOf(alert, time) ==
    {delivered[i].channel : i \in {j \in 1..Len(delivered) :
                                      delivered[j].alert = alert /\ delivered[j].time = time}}

\* C18: every notification that is delivered, the prediction-result
\* notification included, is delivered on exactly the channels the routing
\* table lists for its urgency: signal and desktop for critical and high,
\* desktop alone for moderate and info.
C18_RoutedByUrgency ==
    \A i \in 1..Len(delivered) :
        ChannelsOf(delivered[i].alert, delivered[i].time)
          = Range(Channels(delivered[i].alert.urgency))

(***************************************************************************)
(* Claims about the threshold crossings                                    *)
(***************************************************************************)
\* the alerts of the last tick's evaluation whose type is one of types
OfTypes(types) == SelectSeq(lastTick.allAlerts, LAMBDA a : a.type \in types)

\* x holds one alert, of this type and urgency
IsOne(x, type, urgency) ==
    Len(x) = 1 /\ x[1].type = type /\ x[1].urgency = urgency

\* C19: with prevKp the lastKp of the state the tick loaded, the evaluator
\* emits at most one Kp crossing alert, that of the first branch that
\* matches: critical kp-threshold if kp >= 7 and prevKp < 7, else high
\* kp-threshold if kp >= 5 and prevKp < 5, else info kp-elevated if kp >= 4
\* and prevKp < 4, else none.
C19_KpCrossing ==
    lastTick.done =>
        LET kp == lastTick.snapshot.kp
            prevKp == lastTick.prev.lastKp
            x == OfTypes({"kp-threshold", "kp-elevated"})
        IN  /\ Len(x) <= 1
            /\ CASE kp >= 7 /\ prevKp < 7 -> IsOne(x, "kp-threshold", "critical")
                  [] ~(kp >= 7 /\ prevKp < 7) /\ kp >= 5 /\ prevKp < 5 ->
                        IsOne(x, "kp-threshold", "high")
                  [] ~(kp >= 7 /\ prevKp < 7) /\ ~(kp >= 5 /\ prevKp < 5)
                        /\ kp >= 4 /\ prevKp < 4 -> IsOne(x, "kp-elevated", "info")
                  [] OTHER -> x = << >>

\* a second tick in which Kp rose from 3 to 7, across all three thresholds,
\* and gave the critical alert alone
C19_Witness ==
    /\ lastTick.done /\ lastTick.n = 2
    /\ lastTick.snapshot.kp >= 7 /\ lastTick.prev.lastKp = 3
    /\ IsOne(OfTypes({"kp-threshold", "kp-elevated"}), "kp-threshold", "critical")

\* C20: the evaluator emits at most one bz-threshold alert (high if
\* bz <= -15 and prevBz > -15, else moderate if bz <= -10 and prevBz > -10),
\* at most one wind-speed alert (high if speed >= 700 and prev < 700, else
\* moderate if speed >= 600 and prev < 600), and a moderate wind-density
\* alert exactly if density >= 20 and prev < 20; a missing magneticField
\* counts as bz = 0 and a missing solarWind as speed = density = 0, so that
\* a missing reading gives no crossing alert.
C20_BzWindCrossing ==
    lastTick.done =>
        LET mag == lastTick.snapshot.magneticField
            wind == lastTick.snapshot.solarWind
            prev == lastTick.prev
            bz == IF mag.present THEN mag.bz ELSE 0
            speed == IF wind.present THEN wind.speed ELSE 0
            density == IF wind.present THEN wind.density ELSE 0
            b == OfTypes({"bz-threshold"})
            w == OfTypes({"wind-speed"})
            d == OfTypes({"wind-density"})
        IN  /\ CASE bz <= -15 /\ prev.lastBz > -15 -> IsOne(b, "bz-threshold", "high")
                  [] ~(bz <= -15 /\ prev.lastBz > -15) /\ bz <= -10 /\ prev.lastBz > -10 ->
                        IsOne(b, "bz-threshold", "moderate")
                  [] OTHER -> b = << >>
            /\ CASE speed >= 700 /\ prev.lastWindSpeed < 700 ->
                        IsOne(w, "wind-speed", "high")
                  [] ~(speed >= 700 /\ prev.lastWindSpeed < 700)
                        /\ speed >= 600 /\ prev.lastWindSpeed < 600 ->
                        IsOne(w, "wind-speed", "moderate")
                  [] OTHER -> w = << >>
            /\ IF density >= 20 /\ prev.lastWindDensity < 20
               THEN IsOne(d, "wind-density", "moderate") ELSE d = << >>
            /\ ~mag.present => b = << >>
            /\ ~wind.present => w = << >> /\ d = << >>

\* a second tick in which Bz fell from above -10 to -15 and gave one high
\* alert, while the wind reading was missing after a tick with a fast wind
C20_Witness ==
    /\ lastTick.done /\ lastTick.n = 2
    /\ lastTick.snapshot.magneticField.present
    /\ lastTick.snapshot.magneticField.bz <= -15 /\ lastTick.prev.lastBz > -10
    /\ IsOne(OfTypes({"bz-threshold"}), "bz-threshold", "high")
    /\ ~lastTick.snapshot.solarWind.present
    /\ lastTick.prev.lastWindSpeed >= 700
    /\ OfTypes({"wind-speed", "wind-density"}) = << >>

(***************************************************************************)
(* Claims about the event rules                                            *)
(***************************************************************************)
\* the alerts of the last tick's evaluation of this type for this event
AlertsFor(type, eventId) ==
    SelectSeq(lastTick.allAlerts,
              LAMBDA a : a.type = type /\ a.sourceEventId = eventId)

\* a forecast Kp, a missing one counting as 0
KpOr0(kp) == IF kp = Null THEN 0 ELSE kp

\* C21: for each Earth-directed CME of the snapshot whose id is not among
\* the known CMEs of the loaded state, exactly one cme-earth alert is
\* emitted, critical exactly if its predictedKp is at least 7 and high
\* otherwise, a missing predictedKp counting as 0.
C21_NewCme ==
    lastTick.done =>
        \A c \in Range(lastTick.snapshot.earthDirectedCMEs) :
            c.id \notin KnownCmeIds =>
                /\ Len(AlertsFor("cme-earth", c.id)) = 1
                /\ AlertsFor("cme-earth", c.id)[1].urgency
                      = IF KpOr0(c.predictedKp) >= 7 THEN "critical" ELSE "high"

\* a tick that saw a known CME, a new one without a forecast, which gave a
\* high alert, and a new one with a forecast of Kp 7, which gave a critical
\* alert
C21_Witness ==
    /\ lastTick.done
    /\ \E c \in Range(lastTick.snapshot.earthDirectedCMEs) : c.id \in KnownCmeIds
    /\ \E c \in Range(lastTick.snapshot.earthDirectedCMEs) :
          /\ c.id \notin KnownCmeIds
          /\ c.predictedKp = Null
          /\ AlertsFor("cme-earth", c.id)[1].urgency = "high"
    /\ \E c \in Range(lastTick.snapshot.earthDirectedCMEs) :
          /\ c.id \notin KnownCmeIds
          /\ c.predictedKp = 7
          /\ AlertsFor("cme-earth", c.id)[1].urgency = "critical"

\* C22: for a CME that the loaded state knows, a cme-revision alert is
\* emitted exactly if newKp - oldKp >= 2 and newKp >= 5, missing values
\* counting as 0, and it is critical exactly if newKp >= 7; the tick stores
\* the new forecast, so that the same forecast on the next tick gives no
\* further revision.
C22_Revision ==
    lastTick.done =>
        /\ \A c \in Range(lastTick.snapshot.earthDirectedCMEs) :
              \A k \in Range(lastTick.prev.knownCMEs) :
                 k.id = c.id =>
                    LET newKp == KpOr0(c.predictedKp)
                        oldKp == KpOr0(k.predictedKp)
                        x == AlertsFor("cme-revision", c.id)
                    IN  /\ AlertsFor("cme-earth", c.id) = << >>
                        /\ IF newKp - oldKp >= 2 /\ newKp >= 5
                           THEN /\ Len(x) = 1
                                /\ x[1].urgency = IF newKp >= 7 THEN "critical" ELSE "high"
                           ELSE x = << >>
        /\ tpc # "fetching" =>
              /\ Len(loadState(K).knownCMEs) = Len(lastTick.snapshot.earthDirectedCMEs)
              /\ \A i \in 1..Len(loadState(K).knownCMEs) :
                    /\ loadState(K).knownCMEs[i].id
                          = lastTick.snapshot.earthDirectedCMEs[i].id
                    /\ loadState(K).knownCMEs[i].predictedKp
                          = lastTick.snapshot.earthDirectedCMEs[i].predictedKp

\* the first tick revised CME 1 from Kp 4 to Kp 7 with a critical alert,
\* and the second tick saw the same forecast and emitted nothing for it
C22_Witness ==
    /\ lastTick.done /\ lastTick.n = 2
    /\ \E a \in Range(lastTick.prev.alertsSent) :
          a.type = "cme-revision" /\ a.urgency = "critical" /\ a.sourceEventId = 1
    /\ \E c \in Range(lastTick.snapshot.earthDirectedCMEs) : c.id = 1 /\ c.predictedKp = 7
    /\ \E k \in Range(lastTick.prev.knownCMEs) : k.id = 1 /\ k.predictedKp = 7
    /\ AlertsFor("cme-revision", 1) = << >>

\* a class letter in upper case
UpperCase(letter) ==
    CASE letter = "x" -> "X"
      [] letter = "m" -> "M"
      [] letter = "c" -> "C"
      [] letter = "b" -> "B"
      [] OTHER -> letter

\* C23: for each flare of the snapshot whose id is not among the known
\* flare ids of the loaded state, the evaluator emits exactly one critical
\* flare-x alert if the first letter of its class, in upper case, is X,
\* exactly one high flare-m alert if it is M, and no alert for a class C or
\* below.
C23_FlareByClass ==
    lastTick.done =>
        \A f \in Range(lastTick.snapshot.recentFlares) :
            f.id \notin Range(lastTick.prev.knownFlareIds) =>
                LET letter == UpperCase(f.classType[1])
                    x == AlertsFor("flare-x", f.id)
                    m == AlertsFor("flare-m", f.id)
                IN  CASE letter = "X" ->
                            Len(x) = 1 /\ x[1].urgency = "critical" /\ m = << >>
                      [] letter = "M" ->
                            Len(m) = 1 /\ m[1].urgency = "high" /\ x = << >>
                      [] OTHER -> x = << >> /\ m = << >>

(***************************************************************************)
(* Claims about the all-clear                                              *)
(***************************************************************************)
\* the Kp all-clear alerts among these alerts
KpAllClears(alerts) == SelectSeq(alerts, LAMBDA a : a.id[1] = "all-clear-kp5")

\* C24: a tick emits a Kp all-clear exactly if the kpWasAbove5 of the state
\* it loaded is true and the current kp is below 5, and then just one; the
\* tick stores kpWasAbove5 as the test kp >= 5 on its own kp, so that every
\* Kp all-clear follows a tick whose kp was at least 5 and a further tick
\* with kp below 5 emits none.
C24_KpAllClear ==
    lastTick.done =>
        LET kp == lastTick.snapshot.kp
            prev == lastTick.prev
            x == KpAllClears(lastTick.allAlerts)
        IN  /\ IF prev.kpWasAbove5 /\ kp < 5
               THEN Len(x) = 1 /\ x[1].type = "all-clear" /\ x[1].urgency = "moderate"
               ELSE x = << >>
            /\ prev.kpWasAbove5 <=> prev.lastKp >= 5
            /\ tpc # "fetching" => (loadState(K).kpWasAbove5 <=> kp >= 5)

\* the first tick after the storm saw Kp 3 and sent the all-clear; the
\* second saw Kp 4 and emitted none
C24_Witness ==
    /\ lastTick.done /\ lastTick.n = 2
    /\ lastTick.snapshot.kp = 4
    /\ lastTick.prev.lastKp = 3
    /\ KpAllClears(lastTick.prev.alertsSent) # << >>
    /\ KpAllClears(lastTick.allAlerts) = << >>

(***************************************************************************)
(* Claims about cooldowns                                                  *)
(***************************************************************************)
\* the candidate's type has a cooldown and was last sent less than that ago
Dropped(alert, state, now) ==
    /\ Cooldown(alert.type) > 0
    /\ alert.type \in DOMAIN state.lastCooldowns
    /\ now - state.lastCooldowns[alert.type] < Cooldown(alert.type)

\* C25: the alerts a tick sends are its candidates without those whose type
\* has a cooldown above 0 and was last sent less than the cooldown ago, in
\* the state the tick loaded; a candidate of a type with cooldown 0 or with
\* no recorded emission stays.
C25_CooldownFilter ==
    lastTick.done =>
        /\ lastTick.alertsToSend =
              SelectSeq(lastTick.allAlerts,
                        LAMBDA a : ~Dropped(a, lastTick.prev, lastTick.now))
        /\ \A i \in 1..Len(lastTick.allAlerts) :
              LET a == lastTick.allAlerts[i]
              IN  (Cooldown(a.type) = 0 \/ a.type \notin DOMAIN lastTick.prev.lastCooldowns)
                  => \E j \in 1..Len(lastTick.alertsToSend) : lastTick.alertsToSend[j] = a

\* a tick, a quarter of an hour after both types were sent, drops the Bz
\* alert and keeps the X flare alert
C25_Witness ==
    /\ lastTick.done
    /\ {"bz-threshold", "flare-x"} \subseteq DOMAIN lastTick.prev.lastCooldowns
    /\ lastTick.now - lastTick.prev.lastCooldowns["bz-threshold"] = 15
    /\ OfTypes({"bz-threshold"}) # << >>
    /\ \A j \in 1..Len(lastTick.alertsToSend) :
          lastTick.alertsToSend[j].type = "flare-x"
    /\ lastTick.alertsToSend # << >>

\* the types of the alerts handed to a delivery sink in the last tick
DispatchedTypes ==
    {delivered[i].alert.type : i \in {j \in 1..Len(delivered) : delivered[j].time = lastTick.now}}

\* C26: after a tick lastCooldowns holds the tick's time for exactly the
\* types of the alerts dispatched in the tick, and what it held before for
\* every other type, so for the type of an alert that the cooldown filter
\* dropped or the quiet hours suppressed.
C26_CooldownOnlyWhenDispatched ==
    lastTick.done =>
        LET before == lastTick.prev.lastCooldowns
            after == loadState(K).lastCooldowns
        IN  /\ DOMAIN after = DOMAIN before \cup DispatchedTypes
            /\ \A t \in DOMAIN after :
                  after[t] = IF t \in DispatchedTypes THEN lastTick.now ELSE before[t]

(***************************************************************************)
(* Claims about dispatch                                                   *)
(***************************************************************************)
\* the calls of the delivery sinks in the last tick, in their order
DeliveredNow == SelectSeq(delivered, LAMBDA d : d.time = lastTick.now)

\* how many of them delivered this alert
TimesDelivered(alert) == Len(SelectSeq(DeliveredNow, LAMBDA d : d.alert = alert))

\* C27: outside the quiet hours, the info alerts a tick sends give at most
\* one info notification: none for none, the alert itself for one, and for
\* N >= 2 one alert of type info-batch with the title N Space Weather
\* Updates and the N titles as its body, none of the N being delivered
\* itself; every alert of another urgency is delivered itself, once on each
\* channel of its urgency.
C27_InfoBatch ==
    (lastTick.done /\ ~isQuietHours(Hour(lastTick.now))) =>
        LET infos == SelectSeq(lastTick.alertsToSend, LAMBDA a : a.urgency = "info")
            others == SelectSeq(lastTick.alertsToSend, LAMBDA a : a.urgency # "info")
            notes == SelectSeq(DeliveredNow, LAMBDA d : d.alert.urgency = "info")
        IN  /\ Len(notes) = IF infos = << >> THEN 0 ELSE 1
            /\ Len(infos) = 1 => notes[1].alert = infos[1]
            /\ Len(infos) >= 2 =>
                  /\ notes[1].alert.type = "info-batch"
                  /\ notes[1].alert.title = <<Len(infos), "Space Weather Updates">>
                  /\ notes[1].alert.body = [i \in 1..Len(infos) |-> infos[i].title]
                  /\ \A i \in 1..Len(infos) : TimesDelivered(infos[i]) = 0
            /\ \A i \in 1..Len(others) :
                  TimesDelivered(others[i]) = Len(Channels(others[i].urgency))

\* a tick sends three info alerts, Kp reaching 4 and two new regions, and a
\* Bz alert, and delivers the batch and the Bz alert
C27_Witness ==
    /\ lastTick.done /\ ~isQuietHours(Hour(lastTick.now))
    /\ Len(SelectSeq(lastTick.alertsToSend, LAMBDA a : a.urgency = "info")) = 3
    /\ \E i \in 1..Len(DeliveredNow) : DeliveredNow[i].alert.type = "info-batch"
    /\ \E i \in 1..Len(DeliveredNow) : DeliveredNow[i].alert.type = "bz-threshold"

\* C28: the alerts of a tick reach the delivery sinks in the order of the
\* evaluator's rules: of two alerts the tick sends, the one an earlier rule
\* produced is never delivered after the one a later rule produced.
C28_RuleOrder ==
    lastTick.done =>
        \A i, j \in 1..Len(lastTick.alertsToSend) :
            \A p, q \in 1..Len(DeliveredNow) :
                (/\ i < j
                 /\ DeliveredNow[p].alert = lastTick.alertsToSend[i]
                 /\ DeliveredNow[q].alert = lastTick.alertsToSend[j])
                => p < q

(***************************************************************************)
(* Claims about the order of the steps of a tick                           *)
(***************************************************************************)
\* C29: when a tick saves the state, its alerts have been dispatched and
\* their cooldowns recorded, so that the saved document holds them; the
\* verification of predictions starts when the document of this tick is on
\* disk; and no step of the verification, failing or not, changes the state
\* in memory or the document.
C29_SaveThenVerify ==
    [][/\ lastTick' # lastTick =>
            \A i \in 1..Len(lastTick'.alertsToSend) :
                LET a == lastTick'.alertsToSend[i]
                IN  /\ a.type \in DOMAIN loadState(K').lastCooldowns
                    /\ loadState(K').lastCooldowns[a.type] = lastTick'.now
                    /\ (a.urgency # "info" /\ ~isQuietHours(Hour(lastTick'.now))) =>
                          \E j \in 1..Len(delivered') :
                              delivered'[j].alert = a /\ delivered'[j].time = lastTick'.now
       /\ tverified' # tverified =>
            /\ lastTick.done /\ lastTick.n = ticks
            /\ K = stringify(tstate)
            /\ loadState(K).lastRunAt = tnow
       /\ tpc \in {"verify", "verify_save"} => K' = K /\ tstate' = tstate
      ]_vars

\* a tick has sent an alert and saved the state with its cooldown, and its
\* verification has failed after the notification of a verified prediction
C29_Witness ==
    /\ tpc = "idle" /\ lastTick.done /\ lastTick.n = ticks
    /\ lastTick.alertsToSend # << >>
    /\ tfail.n = ticks /\ tfail.step = "verify"
    /\ \E j \in 1..Len(delivered) : delivered[j].alert.type = "prediction-result"
    /\ K = tfail.file
    /\ loadState(K).lastCooldowns # DEFAULT_STATE.lastCooldowns
    /\ predStore = OneStore

(***************************************************************************)
(* Claims about the state a tick leaves                                    *)
(***************************************************************************)
\* the ids of these records, as a set
Ids(records, field) == {records[i][field] : i \in 1..Len(records)}

\* C30: after a completed tick the saved state has lastKp equal to the kp of
\* the snapshot; lastBz, lastWindSpeed and lastWindDensity equal to the
\* reading of the snapshot, or as they were when the reading is missing;
\* each was-above and was-below flag equal to its threshold test on the
\* snapshot, which fails on a missing reading; and the known CMEs, flares,
\* streams, regions and alert products those of this tick and no others.
C30_StateUpdate ==
    lastTick.done =>
        LET S == lastTick.snapshot
            prev == lastTick.prev
            now == loadState(K)
            regions == IF lastTick.res["swpc-regions"].ok
                       THEN lastTick.res["swpc-regions"].data ELSE << >>
            mag == S.magneticField
            wind == S.solarWind
        IN  /\ now.lastKp = S.kp
            /\ now.lastBz = IF mag.present THEN mag.bz ELSE prev.lastBz
            /\ now.lastWindSpeed = IF wind.present THEN wind.speed ELSE prev.lastWindSpeed
            /\ now.lastWindDensity = IF wind.present THEN wind.density ELSE prev.lastWindDensity
            /\ now.kpWasAbove5 <=> S.kp >= 5
            /\ now.kpWasAbove7 <=> S.kp >= 7
            /\ now.bzWasBelow10 <=> (mag.present /\ mag.bz <= -10)
            /\ now.bzWasBelow15 <=> (mag.present /\ mag.bz <= -15)
            /\ now.windWasAbove600 <=> (wind.present /\ wind.speed >= 600)
            /\ now.windWasAbove700 <=> (wind.present /\ wind.speed >= 700)
            /\ now.densityWasAbove20 <=> (wind.present /\ wind.density >= 20)
            /\ Ids(now.knownCMEs, "id") = Ids(S.earthDirectedCMEs, "id")
            /\ \A i \in 1..Len(now.knownCMEs) :
                  /\ now.knownCMEs[i].id = S.earthDirectedCMEs[i].id
                  /\ now.knownCMEs[i].predictedKp = S.earthDirectedCMEs[i].predictedKp
                  /\ now.knownCMEs[i].predictedArrival = S.earthDirectedCMEs[i].predictedArrival
            /\ Range(now.knownFlareIds) = Ids(S.recentFlares, "id")
            /\ Range(now.knownHSSIds) = Ids(S.recentHSS, "id")
            /\ Range(now.knownRegionNumbers) = Ids(regions, "regionNumber")
            /\ Range(now.knownAlertProductIds) = Ids(S.activeAlerts, "productId")

\* the second tick lost every source: lastKp, lastBz and the wind readings
\* stay as the first tick left them, the Bz, wind and density flags fall,
\* and the known events are forgotten
C30_Witness ==
    /\ lastTick.done /\ lastTick.n = 2
    /\ \A s \in SourceSet : ~lastTick.res[s].ok
    /\ lastTick.prev.bzWasBelow15 /\ lastTick.prev.windWasAbove700
    /\ lastTick.prev.knownCMEs # << >> /\ lastTick.prev.knownRegionNumbers # << >>
    /\ lastTick.prev.knownAlertProductIds = <<11, 12>>
    /\ loadState(K).lastBz = -15 /\ loadState(K).lastWindSpeed = 700
    /\ loadState(K).lastKp = 7 /\ loadState(K).kpWasAbove7
    /\ ~loadState(K).bzWasBelow15 /\ ~loadState(K).windWasAbove700
    /\ loadState(K).knownCMEs = << >> /\ loadState(K).knownAlertProductIds = << >>

(***************************************************************************)
(* Claims about the end of a run                                           *)
(***************************************************************************)
\* C31: a run of the checker that acquired the lock has released it when it
\* has ended, whether its tick completed or a step of it threw: no lockfile
\* of the run remains.
C31_LockReleasedAtExit ==
    (tpc = "idle" /\ ticks > 0) => ~tlock

(***************************************************************************)
(* Claims about the verification of predictions                            *)
(***************************************************************************)
\* t lies in the window of the prediction, both ends included
InWindow(p, t) == p.timestamp <= t /\ t <= p.windowEnd

\* an event that counts for the prediction is among what the verification
\* was given: the alerts sent and the snapshot of the tick
Qualifies(p, state, snapshot) ==
    \/ \E i \in 1..Len(state.alertsSent) :
          /\ state.alertsSent[i].type \in
                {"flare-m", "flare-x", "kp-threshold", "kp-elevated", "cme-earth",
                 "bz-threshold", "wind-speed"}
          /\ InWindow(p, state.alertsSent[i].timestamp)
    \/ \E i \in 1..Len(snapshot.recentFlares) :
          /\ snapshot.recentFlares[i].classType[1] \in {"M", "X"}
          /\ InWindow(p, snapshot.recentFlares[i].beginTime)
    \/ \E i \in 1..Len(snapshot.recentStorms) :
          /\ snapshot.recentStorms[i].kpIndex >= 5
          /\ InWindow(p, snapshot.recentStorms[i].startTime)
    \/ \E i \in 1..Len(snapshot.earthDirectedCMEs) :
          InWindow(p, snapshot.earthDirectedCMEs[i].startTime)

\* C32: the save of a verification changes a stored prediction only if it
\* was pending and its window had ended; it then is a hit exactly if an
\* event that counts lies in its window, ends included, and a miss
\* otherwise, and its matched events differ pairwise in type or timestamp.
C32_Verification ==
    [][(tpc = "verify_save" /\ tpc' = "idle") =>
          /\ Len(predStore'.predictions) = Len(predStore.predictions)
          /\ \A i \in 1..Len(predStore.predictions) :
                LET old == predStore.predictions[i]
                    new == predStore'.predictions[i]
                IN  new # old =>
                      /\ old.status = "pending" /\ old.windowEnd <= tnow
                      /\ new = [old EXCEPT !.status = new.status,
                                           !.matchedEvents = new.matchedEvents,
                                           !.verifiedAt = tnow]
                      /\ new.status = IF Qualifies(old, tstate, lastTick.snapshot)
                                      THEN "hit" ELSE "miss"
                      /\ \A j, k \in 1..Len(new.matchedEvents) :
                            (/\ new.matchedEvents[j].type = new.matchedEvents[k].type
                             /\ new.matchedEvents[j].timestamp = new.matchedEvents[k].timestamp)
                            => j = k
      ]_vars

\* a prediction was verified when its window ended, as a hit with one flare
\* event for two flares that began at the same time
C32_Witness ==
    /\ tpc = "idle" /\ lastTick.done
    /\ Len(lastTick.snapshot.recentFlares) = 2
    /\ predStore.predictions[1].status = "hit"
    /\ predStore.predictions[1].verifiedAt = predStore.predictions[1].windowEnd
    /\ Len(SelectSeq(predStore.predictions[1].matchedEvents,
                     LAMBDA e : e.type = "flare" /\ e.timestamp = OldPrediction.windowEnd - 5)) = 1

\* a prediction was verified as a miss in a tick that saw a storm of Kp 4 in
\* its window and a storm of Kp 6 after it
C32_WitnessMiss ==
    /\ tpc = "idle" /\ lastTick.done
    /\ Len(lastTick.snapshot.recentStorms) = 2
    /\ predStore.predictions[1].status = "miss"

(***************************************************************************)
(* Claims about the history of alerts                                      *)
(***************************************************************************)
\* C33: a tick appends to alertsSent exactly the alerts it dispatched, not
\* those the cooldown filter dropped or the quiet hours suppressed, and
\* alertsSent is in ascending order of the alerts' times.
C33_HistoryIsDispatched ==
    lastTick.done =>
        LET after == loadState(K).alertsSent
            dispatched == SelectSeq(lastTick.alertsToSend,
                                    LAMBDA a : TimesDelivered(a) > 0)
        IN  /\ after = LastN(lastTick.prev.alertsSent \o dispatched, MaxAlertHistory)
            /\ \A i \in 1..(Len(after) - 1) : after[i].timestamp <= after[i + 1].timestamp

\* C34: a tick emits no new-event alert for a CME, flare or stream for
\* which an earlier tick has sent one, whatever the ticks in between saw.
C34_OneAlertPerEvent ==
    lastTick.done =>
        \A i \in 1..Len(lastTick.allAlerts) :
            LET a == lastTick.allAlerts[i]
            IN  a.type \in {"cme-earth", "flare-x", "flare-m", "hss-arrival"} =>
                  \A j \in 1..Len(lastTick.prev.alertsSent) :
                      LET b == lastTick.prev.alertsSent[j]
                      IN  ~(b.type = a.type /\ b.sourceEventId = a.sourceEventId)

\* C35: in the state a completed tick saved, every flag agrees with the
\* stored last value it is named after, also when the tick had no magnetic
\* field or no solar wind reading.
C35_FlagsAgreeWithLast ==
    lastTick.done =>
        LET now == loadState(K)
        IN  /\ now.kpWasAbove5 <=> now.lastKp >= 5
            /\ now.kpWasAbove7 <=> now.lastKp >= 7
            /\ now.bzWasBelow10 <=> now.lastBz <= -10
            /\ now.bzWasBelow15 <=> now.lastBz <= -15
            /\ now.windWasAbove600 <=> now.lastWindSpeed >= 600
            /\ now.windWasAbove700 <=> now.lastWindSpeed >= 700
            /\ now.densityWasAbove20 <=> now.lastWindDensity >= 20

\* C36: a tick emits the all-clear for Bz only if its snapshot has a
\* magnetic field reading, and the all-clear for the wind only if it has a
\* solar wind reading.
C36_AllClearNeedsReading ==
    lastTick.done =>
        \A i \in 1..Len(lastTick.allAlerts) :
            LET a == lastTick.allAlerts[i]
            IN  /\ a.id[1] = "all-clear-bz15" => lastTick.snapshot.magneticField.present
                /\ a.id[1] = "all-clear-wind700" => lastTick.snapshot.solarWind.present

(***************************************************************************)
(* Claims about the writers of the prediction store                        *)
(***************************************************************************)
\* the stored predictions with this id
StoredAs(store, id) == SelectSeq(store.predictions, LAMBDA p : p.id = id)

\* the notifications of the result of the prediction with this id
ResultsSent(id) ==
    SelectSeq(delivered, LAMBDA d : d.alert.id = <<"predict-result", id>>)

\* C37: whatever the order of the steps of submissions and verifications, a
\* stored prediction that is a hit or a miss keeps its status in every later
\* store, and the result of a prediction is notified at most once.
C37_StatusFinal ==
    [][\A i \in 1..Len(predStore.predictions) :
          LET old == predStore.predictions[i]
          IN  /\ old.status \in {"hit", "miss"} =>
                    \A j \in 1..Len(StoredAs(predStore', old.id)) :
                        StoredAs(predStore', old.id)[j].status = old.status
              /\ Len(ResultsSent(old.id)) <= 1
      ]_vars

\* the ids of the predictions whose submission was answered with ok
Acknowledged == {id \in 1..(nextId - 1) : ~(ppc = "saving" /\ id = nextId - 1)}

\* C38: whatever the order of the steps of submissions, verifications and
\* base rate computations, every prediction whose submission was answered
\* with ok is in the store, as long as the cap has evicted none.
C38_NoLostSubmission ==
    Cardinality(Acknowledged) <= MaxPredictions =>
        \A id \in Acknowledged : StoredAs(predStore, id) # << >>

(***************************************************************************)
(* Claims about a storm that lasts                                         *)
(***************************************************************************)
\* C39: when Kp rose to 5 or more in a tick and is 5 or more in the next
\* tick, more than the cooldown of kp-threshold later, a kp-threshold alert
\* has been dispatched since Kp rose, also if the alert of the tick in
\* which it rose was dropped by the cooldown filter.
C39_StormAnnounced ==
    (/\ lastTick.done /\ lastTick.n = 2
     /\ loadState(StormOver).lastKp < 5
     /\ lastTick.prev.lastKp >= 5
     /\ lastTick.snapshot.kp >= 5
     /\ lastTick.now - lastTick.prev.lastRunAt > Cooldown("kp-threshold"))
    => \E i \in 1..Len(delivered) :
          /\ delivered[i].alert.type = "kp-threshold"
          /\ delivered[i].time >= lastTick.prev.lastRunAt


\* ---------------------------------------------------------------------
\* Claims about a refused invocation
\* ---------------------------------------------------------------------

\* what process p has written or removed of the files the checkers share
Touched(p) ==
    /\ \/ lockWriter = p
       \/ fd[p] # 0
       \/ \E d \in deleted : d[1] = p
       \/ \E f \in LogFiles : logs[f].by = p

\* C40: an invocation that acquireLock() refused has modified none of the
\* shared files: the lockfile and the log files are as it found them
C40_RefusedTouchesNothing ==
    \A p \in Procs : pc[p] = "refused" => ~Touched(p)

====
